---- MODULE Spec2Model ----
(***************************************************************************)
(* Preview-note engine of the tracker: the host side PreviewNoteService,  *)
(* the PreviewProcessor audio worklet in its two source versions (the     *)
(* PT3-table engine and the linear-normalize engine), the message port    *)
(* between them, and the part of AudioService that owns the chip          *)
(* processors used for full playback.                                     *)
(***************************************************************************)
EXTENDS Integers, Sequences, FiniteSets, TLC

(***************************************************************************)
(* Bounds of the model.                                                    *)
(***************************************************************************)
\* longest backlog of unhandled messages on the preview port
MaxQueue == 1
\* highest octave a note is entered in
MaxOctave == 8
\* most rows in a channel of the patterns handed to the preview lookups
MaxPatternRows == 3
\* longest order table the editor holds
MaxOrderLength == 2
\* longest backlog of unhandled commands on the chip processor's port
MaxChipQueue == 1
\* audioContext.sampleRate, scaled down so that a tick is a few samples
SampleRate == 100
\* largest instrument row count enumerated for the cursor walk
MaxRows == 3
\* number of samples rendered in one note of the tick-scheduler runs
MaxSamples == 14
\* number of addChipProcessor calls that are followed one by one
MaxCalls == 3
\* highest selected column and largest channel count of a pattern
MaxColumn == 24
MaxChannels == 4

(***************************************************************************)
(* Program constants.                                                      *)
(***************************************************************************)
TickRateHz == 50
NumChannels == 3
DefaultVolume == 15

Channels == 0 .. (NumChannels - 1)

(***************************************************************************)
(* JavaScript optional values: undefined / null is <<>>, a value v is      *)
(* <<v>>.                                                                  *)
(***************************************************************************)
Undefined == <<>>
Some(v) == <<v>>
IsDef(x) == x # <<>>
Val(x) == x[1]

Min(a, b) == IF a < b THEN a ELSE b
Max(a, b) == IF a > b THEN a ELSE b

(***************************************************************************)
(* Instruments, instrument tables and tuning tables handed to the preview  *)
(* voice.                                                                  *)
(***************************************************************************)
Row(note, volume, tone, noise, envelope, noiseAdd) ==
    [note |-> note, volume |-> volume, tone |-> tone, noise |-> noise,
     envelope |-> envelope, noiseAdd |-> noiseAdd]

PlainRow(volume) ==
    Row(0, Some(volume), Undefined, Undefined, Undefined, Undefined)

Instrument(rows, loop) == [rows |-> rows, loop |-> loop]

\* three rows, loop back to row 1; row 1 switches the envelope on
InstLoop ==
    Instrument(<< PlainRow(15),
                  Row(1, Some(10), Some(TRUE), Some(FALSE), Some(TRUE), Undefined),
                  Row(0, Some(5), Some(FALSE), Some(TRUE), Some(FALSE), Some(33)) >>,
               Some(1))
\* two rows, no loop; row 0 has the envelope flag on, row 1 no volume
InstHold ==
    Instrument(<< Row(0, Some(12), Some(TRUE), Undefined, Some(TRUE), Undefined),
                  Row(2, Undefined, Undefined, Undefined, Undefined, Undefined) >>,
               Undefined)
\* no rows and no loop
InstEmpty == Instrument(<<>>, Undefined)
\* one row, loop index not below the row count
InstBadLoop == Instrument(<< PlainRow(7) >>, Some(2))

InstrumentTables == << <<InstLoop, InstHold>>, <<InstEmpty, InstBadLoop>> >>

\* tuning tables: frequency by absolute note index (index 0 is element 1)
TuningTables == << [i \in 1 .. 48 |-> 100 + i], [i \in 1 .. 46 |-> 200 + i] >>

(***************************************************************************)
(* Register file of one generator (one Ayumi struct in one WASM instance). *)
(***************************************************************************)
NoTone == [src |-> "none"]

ZeroRegs ==
    [volume |-> [c \in Channels |-> 0],
     tone   |-> [c \in Channels |-> NoTone],
     t_off  |-> [c \in Channels |-> 0],
     n_off  |-> [c \in Channels |-> 0],
     e_on   |-> [c \in Channels |-> 0],
     noise  |-> 0]

\* a volume write that lands on channel 0 whatever channel is named
ayumi_set_volumeFirstChannel(regs, ch, v) ==
    [regs EXCEPT !.volume[0] = v]
ayumi_set_volume(regs, ch, v) ==
    [regs EXCEPT !.volume[ch] = v]
ayumi_set_tone(regs, ch, f) ==
    [regs EXCEPT !.tone[ch] = f]
ayumi_set_noise(regs, p) ==
    [regs EXCEPT !.noise = p]
ayumi_set_mixer(regs, ch, toff, noff, eon) ==
    [regs EXCEPT !.t_off[ch] = toff, !.n_off[ch] = noff, !.e_on[ch] = eon]

(***************************************************************************)
(* Volume combination of a pattern volume p and an instrument volume i.    *)
(***************************************************************************)
PT3_VOL ==
    << << 0, 0, 0, 0, 0, 0, 0, 0, 0, 0, 0, 0, 0, 0, 0, 0 >>,
       << 0, 0, 0, 0, 0, 0, 0, 0, 1, 1, 1, 1, 1, 1, 1, 1 >>,
       << 0, 0, 0, 0, 1, 1, 1, 1, 1, 1, 1, 1, 2, 2, 2, 2 >>,
       << 0, 0, 0, 1, 1, 1, 1, 1, 2, 2, 2, 2, 2, 3, 3, 3 >>,
       << 0, 0, 1, 1, 1, 1, 2, 2, 2, 2, 3, 3, 3, 3, 4, 4 >>,
       << 0, 0, 1, 1, 1, 2, 2, 2, 3, 3, 3, 4, 4, 4, 5, 5 >>,
       << 0, 0, 1, 1, 2, 2, 2, 3, 3, 4, 4, 4, 5, 5, 6, 6 >>,
       << 0, 0, 1, 1, 2, 2, 3, 3, 4, 4, 5, 5, 6, 6, 7, 7 >>,
       << 0, 1, 1, 2, 2, 3, 3, 4, 4, 5, 5, 6, 6, 7, 7, 8 >>,
       << 0, 1, 1, 2, 2, 3, 4, 4, 5, 5, 6, 7, 7, 8, 8, 9 >>,
       << 0, 1, 1, 2, 3, 3, 4, 5, 5, 6, 7, 7, 8, 9, 9, 10 >>,
       << 0, 1, 1, 2, 3, 4, 4, 5, 6, 7, 7, 8, 9, 10, 10, 11 >>,
       << 0, 1, 2, 2, 3, 4, 5, 6, 6, 7, 8, 9, 10, 10, 11, 12 >>,
       << 0, 1, 2, 3, 3, 4, 5, 6, 7, 8, 9, 10, 10, 11, 12, 13 >>,
       << 0, 1, 2, 3, 4, 5, 6, 7, 7, 8, 9, 10, 11, 12, 13, 14 >>,
       << 0, 1, 2, 3, 4, 5, 6, 7, 8, 9, 10, 11, 12, 13, 14, 15 >> >>

\* Math.max(0, Math.min(15, v))
Clamp15(v) == Max(0, Min(15, v))

\* table engine: both volumes are clamped, then looked up
TableVolumeBroken(baseVolume, instrumentVolume) ==
    Clamp15(baseVolume) * Clamp15(instrumentVolume)
TableVolume(baseVolume, instrumentVolume) ==
    PT3_VOL[Clamp15(baseVolume) + 1][Clamp15(instrumentVolume) + 1]

\* linear engine: Math.round((baseVolume * instrumentVolume) / 15),
\* Math.round rounding halves upwards
LinearVolumeTruncated(baseVolume, instrumentVolume) ==
    (baseVolume * instrumentVolume) \div 15
LinearVolume(baseVolume, instrumentVolume) ==
    (2 * baseVolume * instrumentVolume + 15) \div 30

CombinedVolume(eng, baseVolume, instrumentVolume) ==
    IF eng = "table" THEN TableVolume(baseVolume, instrumentVolume)
                     ELSE LinearVolume(baseVolume, instrumentVolume)

(***************************************************************************)
(* Derivation of the register values from the current note.               *)
(***************************************************************************)
\* noteName - 2 + (octave - 1) * 12
BaseNoteFromOne(noteName, octave) == noteName - 1 + (octave - 1) * 12
BaseNote(noteName, octave) == noteName - 2 + (octave - 1) * 12

\* the note index at which the equal-temperament fallback gives 440 Hz
ReferenceNote == 57

\* this.tuningTable[finalNote], or the equal-temperament fallback
Frequency(tt, finalNote) ==
    IF finalNote + 1 \in DOMAIN tt
    THEN [src |-> "table", hz |-> tt[finalNote + 1]]
    ELSE [src |-> "equal", note |-> finalNote]

\* 440 * Math.pow(2, (finalNote - 57) / 12) is 440 for finalNote = 57 only
Is440Hz(f) ==
    \/ f.src = "equal" /\ f.note = ReferenceNote
    \/ f.src = "table" /\ f.hz = 440

\* the guard in front of the instrument-row read
RowGuard(cur, row) ==
    IsDef(cur.instrument) /\ row < Len(Val(cur.instrument).rows)

\* instrument.rows[row] is undefined and a property of it is read
RowReadThrows(cur, row) ==
    RowGuard(cur, row) /\ row < 0

InstRowOf(cur, row) == Val(cur.instrument).rows[row + 1]

NoteOffsetOf(cur, row) ==
    IF RowGuard(cur, row) THEN InstRowOf(cur, row).note ELSE 0

InstrumentVolumeOf(eng, cur, row) ==
    IF RowGuard(cur, row) /\ IsDef(InstRowOf(cur, row).volume)
       /\ (eng = "table" => Val(InstRowOf(cur, row).volume) >= 0)
    THEN Val(InstRowOf(cur, row).volume)
    ELSE DefaultVolume

ToneEnabledOf(cur, row) ==
    IF RowGuard(cur, row) /\ IsDef(InstRowOf(cur, row).tone)
    THEN Val(InstRowOf(cur, row).tone) ELSE TRUE
NoiseEnabledOf(cur, row) ==
    IF RowGuard(cur, row) /\ IsDef(InstRowOf(cur, row).noise)
    THEN Val(InstRowOf(cur, row).noise) ELSE FALSE
EnvelopeEnabledOf(cur, row) ==
    IF RowGuard(cur, row) /\ IsDef(InstRowOf(cur, row).envelope)
    THEN Val(InstRowOf(cur, row).envelope) ELSE FALSE
NoiseValueOf(cur, row) ==
    IF RowGuard(cur, row) /\ IsDef(InstRowOf(cur, row).noiseAdd)
    THEN Val(InstRowOf(cur, row).noiseAdd) % 32 ELSE 0

RECURSIVE MuteOthersTable(_, _, _)
MuteOthersTable(regs, ch, i) ==
    IF i >= NumChannels THEN regs
    ELSE MuteOthersTable(
             IF i # ch
             THEN ayumi_set_mixer(ayumi_set_volume(regs, i, 0), i, 1, 1, 0)
             ELSE regs,
             ch, i + 1)

RECURSIVE MuteOthersLinear(_, _, _)
MuteOthersLinear(regs, ch, i) ==
    IF i >= NumChannels THEN regs
    ELSE MuteOthersLinear(
             IF i # ch THEN ayumi_set_volume(regs, i, 0) ELSE regs,
             ch, i + 1)

\* updateChipRegisters of the table engine, for a row read that succeeds
UpdateChipRegistersTable(regs, cur, row, tt) ==
    LET ch == cur.channelIndex
        r1 == MuteOthersTable(regs, ch, 0)
        r2 == ayumi_set_tone(r1, ch,
                  Frequency(tt, cur.baseNote + NoteOffsetOf(cur, row)))
        r3 == IF NoiseEnabledOf(cur, row)
              THEN ayumi_set_noise(r2, NoiseValueOf(cur, row)) ELSE r2
        r4 == ayumi_set_volume(r3, ch,
                  TableVolume(cur.baseVolume, InstrumentVolumeOf("table", cur, row)))
    IN  ayumi_set_mixer(r4, ch,
            IF ToneEnabledOf(cur, row) THEN 0 ELSE 1,
            IF NoiseEnabledOf(cur, row) THEN 0 ELSE 1,
            IF EnvelopeEnabledOf(cur, row) THEN 1 ELSE 0)

\* updateChipRegisters of the linear engine, for a row read that succeeds
UpdateChipRegistersLinear(regs, cur, row, tt) ==
    LET ch == cur.channelIndex
        r1 == MuteOthersLinear(regs, ch, 0)
        r2 == ayumi_set_tone(r1, ch,
                  Frequency(tt, cur.baseNote + NoteOffsetOf(cur, row)))
        r3 == ayumi_set_volume(r2, ch,
                  LinearVolume(cur.baseVolume, InstrumentVolumeOf("linear", cur, row)))
    IN  ayumi_set_mixer(r3, ch, 0, 1, 0)

\* updateChipRegisters: no write without a module, a note or on another chip
UpdateChipRegisters(eng, hasModule, chip, regs, curOpt, row, tt) ==
    IF ~hasModule \/ ~IsDef(curOpt) \/ chip # "ay" THEN regs
    ELSE IF eng = "table"
         THEN UpdateChipRegistersTable(regs, Val(curOpt), row, tt)
         ELSE UpdateChipRegistersLinear(regs, Val(curOpt), row, tt)

\* updateChipRegisters raises a TypeError
UpdateChipRegistersThrows(hasModule, chip, curOpt, row) ==
    hasModule /\ IsDef(curOpt) /\ chip = "ay" /\ RowReadThrows(Val(curOpt), row)

\* the calls updateChipRegisters makes on the generator, in order
Write(op, args) == [op |-> op, args |-> args]

RECURSIVE MuteOthersWrites(_, _, _)
MuteOthersWrites(eng, ch, i) ==
    IF i >= NumChannels THEN <<>>
    ELSE (IF i = ch THEN <<>>
          ELSE IF eng = "table"
               THEN << Write("ayumi_set_volume", << i, 0 >>),
                       Write("ayumi_set_mixer", << i, 1, 1, 0 >>) >>
               ELSE << Write("ayumi_set_volume", << i, 0 >>) >>)
         \o MuteOthersWrites(eng, ch, i + 1)

RegisterWrites(eng, hasModule, chip, curOpt, row, tt) ==
    IF ~hasModule \/ ~IsDef(curOpt) \/ chip # "ay" THEN <<>>
    ELSE LET cur == Val(curOpt)
             ch == cur.channelIndex
         IN  MuteOthersWrites(eng, ch, 0)
             \o << Write("ayumi_set_tone",
                      << ch, Frequency(tt, cur.baseNote + NoteOffsetOf(cur, row)) >>) >>
             \o (IF eng = "table" /\ NoiseEnabledOf(cur, row)
                 THEN << Write("ayumi_set_noise", << NoiseValueOf(cur, row) >>) >>
                 ELSE <<>>)
             \o << Write("ayumi_set_volume",
                      << ch, CombinedVolume(eng, cur.baseVolume,
                                 InstrumentVolumeOf(eng, cur, row)) >>) >>
             \o << (IF eng = "table"
                    THEN Write("ayumi_set_mixer",
                             << ch, IF ToneEnabledOf(cur, row) THEN 0 ELSE 1,
                                IF NoiseEnabledOf(cur, row) THEN 0 ELSE 1,
                                IF EnvelopeEnabledOf(cur, row) THEN 1 ELSE 0 >>)
                    ELSE Write("ayumi_set_mixer", << ch, 0, 1, 0 >>)) >>

\* a noise write that adds to the period already set
ApplyWriteNoiseAccumulates(regs, w) ==
    CASE w.op = "ayumi_set_volume" -> ayumi_set_volume(regs, w.args[1], w.args[2])
      [] w.op = "ayumi_set_tone" -> ayumi_set_tone(regs, w.args[1], w.args[2])
      [] w.op = "ayumi_set_noise" ->
             ayumi_set_noise(regs, (regs.noise + w.args[1]) % 32)
      [] w.op = "ayumi_set_mixer" ->
             ayumi_set_mixer(regs, w.args[1], w.args[2], w.args[3], w.args[4])
\* the effect of one call on the generator's registers
ApplyWrite(regs, w) ==
    CASE w.op = "ayumi_set_volume" -> ayumi_set_volume(regs, w.args[1], w.args[2])
      [] w.op = "ayumi_set_tone" -> ayumi_set_tone(regs, w.args[1], w.args[2])
      [] w.op = "ayumi_set_noise" -> ayumi_set_noise(regs, w.args[1])
      [] w.op = "ayumi_set_mixer" ->
             ayumi_set_mixer(regs, w.args[1], w.args[2], w.args[3], w.args[4])

RECURSIVE ApplyWrites(_, _)
ApplyWrites(regs, ws) ==
    IF ws = <<>> THEN regs
    ELSE ApplyWrites(ApplyWrite(regs, Head(ws)), Tail(ws))

\* the cursor after advanceInstrument's increment and loop handling
AdvanceRowWrapToZero(inst, row) ==
    IF row + 1 >= Len(inst.rows) THEN 0 ELSE row + 1
AdvanceRowLoopOffByOne(inst, row) ==
    IF row + 1 >= Len(inst.rows)
    THEN IF IsDef(inst.loop) /\ Val(inst.loop) >= 0
         THEN Min(Val(inst.loop) + 1, Len(inst.rows) - 1)
         ELSE Len(inst.rows) - 1
    ELSE row + 1
AdvanceRow(inst, row) ==
    IF row + 1 >= Len(inst.rows)
    THEN IF IsDef(inst.loop) /\ Val(inst.loop) >= 0
         THEN Val(inst.loop)
         ELSE Len(inst.rows) - 1
    ELSE row + 1

\* Math.floor(sampleRate / 50)
SamplesPerTick(sampleRate) == sampleRate \div TickRateHz

(***************************************************************************)
(* PatternInstrumentContext: the instrument and the volume a preview note  *)
(* takes from the pattern.  A pattern is [channels |-> <<channel, ...>>],  *)
(* a channel [rows |-> <<row, ...>>], a row [instrument, volume] with      *)
(* either field undefined, null or a number.                               *)
(***************************************************************************)
PatternRow(instrument, volume) == [instrument |-> instrument, volume |-> volume]

\* pattern.channels[channelIndex]?.rows[i]
RowAt(rows, i) ==
    IF i + 1 \in DOMAIN rows THEN Some(rows[i + 1]) ELSE Undefined

\* row && row.instrument !== undefined && row.instrument !== null
\*     && row.instrument > 0
HasInstrument(rowOpt) ==
    IsDef(rowOpt) /\ IsDef(Val(rowOpt).instrument)
    /\ Val(Val(rowOpt).instrument) > 0
HasVolume(rowOpt) ==
    IsDef(rowOpt) /\ IsDef(Val(rowOpt).volume) /\ Val(Val(rowOpt).volume) > 0

\* for (let i = rowIndex - 1; i >= 0; i--), then the default 0
RECURSIVE ScanBackInstrumentOldest(_, _)
ScanBackInstrumentOldest(rows, i) ==
    IF i < 0 THEN 0
    ELSE LET older == ScanBackInstrumentOldest(rows, i - 1)
         IN  IF older # 0 THEN older
             ELSE IF HasInstrument(RowAt(rows, i))
                  THEN Val(Val(RowAt(rows, i)).instrument) ELSE 0
RECURSIVE ScanBackInstrument(_, _)
ScanBackInstrument(rows, i) ==
    IF i < 0 THEN 0
    ELSE IF HasInstrument(RowAt(rows, i))
         THEN Val(Val(RowAt(rows, i)).instrument)
         ELSE ScanBackInstrument(rows, i - 1)

\* the same loop over the volume, then the default 15
RECURSIVE ScanBackVolumeDefaultZero(_, _)
ScanBackVolumeDefaultZero(rows, i) ==
    IF i < 0 THEN 0
    ELSE IF HasVolume(RowAt(rows, i))
         THEN Val(Val(RowAt(rows, i)).volume)
         ELSE ScanBackVolumeDefaultZero(rows, i - 1)
RECURSIVE ScanBackVolume(_, _)
ScanBackVolume(rows, i) ==
    IF i < 0 THEN DefaultVolume
    ELSE IF HasVolume(RowAt(rows, i))
         THEN Val(Val(RowAt(rows, i)).volume)
         ELSE ScanBackVolume(rows, i - 1)

getInstrumentForPreview(pattern, rowIndex, channelIndex) ==
    IF channelIndex < 0 \/ channelIndex >= Len(pattern.channels) THEN 0
    ELSE LET rows == pattern.channels[channelIndex + 1].rows
             currentRow == RowAt(rows, rowIndex)
         IN  IF HasInstrument(currentRow)
             THEN Val(Val(currentRow).instrument)
             ELSE ScanBackInstrument(rows, rowIndex - 1)

getVolumeForPreview(pattern, rowIndex, channelIndex) ==
    IF channelIndex < 0 \/ channelIndex >= Len(pattern.channels)
    THEN DefaultVolume
    ELSE LET rows == pattern.channels[channelIndex + 1].rows
             currentRow == RowAt(rows, rowIndex)
         IN  IF HasVolume(currentRow)
             THEN Val(Val(currentRow).volume)
             ELSE ScanBackVolume(rows, rowIndex - 1)

(***************************************************************************)
(* Inputs of the operations.                                               *)
(***************************************************************************)
Engines == {"table", "linear"}
ChipTypes == {"ay", "fm"}
Keys == {"A", "S"}
\* NoteName values: 2 is C, 11 is A
NoteNames == {2, 11}
Octaves == {4}
Instances == {1, 2}

\* calls made on the preview service
HostInstrumentIndexes == {0}
HostChannels == {0}
HostVolumes == {15}
HostInstrumentTables == {InstrumentTables[1]}
HostTuningTables == {TuningTables[1]}
BlockSizes == {1}
\* the one note and key of the run that includes full playback
SoloNoteNames == {11}
SoloKeys == {"A"}

\* payloads delivered to the worklet in the worklet run
WNoteNames == {11}
WInstrumentIndexes == {0, 1, 2}
WChannels == {0, 1}
WVolumes == {15, 9}
WInstrumentTables == {InstrumentTables[1], InstrumentTables[2]}
WTuningTables == {TuningTables[2]}

\* block sizes of the tick-scheduler run, below and above one tick
TickBlockSizes == {1, 2, 3, 5}

InitMsg(chipType, sampleRate) ==
    [type |-> "init", chipType |-> chipType, sampleRate |-> sampleRate]
PlayNoteMsg(noteName, octave, instrumentIndex, channelIndex, baseVolume) ==
    [type |-> "play_note", noteName |-> noteName, octave |-> octave,
     instrumentIndex |-> instrumentIndex, channelIndex |-> channelIndex,
     baseVolume |-> baseVolume]
StopNoteMsg == [type |-> "stop_note"]
UpdateInstrumentsMsg(table) == [type |-> "update_instruments", payload |-> table]
UpdateTuningTableMsg(tt) == [type |-> "update_tuning_table", payload |-> tt]

(***************************************************************************)
(* State.                                                                  *)
(***************************************************************************)
VARIABLES
    \* which of the two preview-processor.js versions the worklet runs
    engine,
    \* AudioService
    addPc, addChip, chipProcessors, previewServices, isPlaying, audioError,
    \* the chip processor used for full playback and its worklet
    procAudioNode, chipPort, chipWasm, chipPlaying,
    \* PreviewNoteService
    svcCreated, chip, ready, audioNode, currentNote, heldKeys,
    instruments, tuningTable, hlast,
    \* the two directions of the preview node's message port
    port, toHost,
    \* PreviewProcessor
    initialized, instantiating, wasmModule, wCurrentNote, wInstruments,
    wTuningTable, chipType, instrumentRow, tickCounter, samplesPerTick,
    raised, wlast,
    \* WASM instances and the register file of the generator in each
    wasmInstances, mem,
    \* observation of one note: samples rendered, ticks fired, cursor walk
    samples, ticks, visited,
    \* which observations are recorded: "host" (hlast), "worklet" (wlast),
    \* "ticks" (samples, ticks, visited)
    observed,
    \* the last evaluation of a pure function: its arguments and its result
    fnCall, fnResult,
    \* channelMuteStore, and the pattern list and order table bound to the
    \* pattern editor
    muteStore, patterns, patternOrder,
    \* messages posted by the chip processor's worklet, not yet handled
    fromChip,
    \* observation ("transport"): the last start or stop command that was
    \* posted to the chip processor
    lastTransport,
    \* addChipProcessor calls seen one by one: how far each call has come
    addCalls,
    \* playbackStore.isPlaying
    storeIsPlaying

audioVars == << addPc, addChip, chipProcessors, previewServices, isPlaying,
                audioError >>
chipVars == << procAudioNode, chipPort, chipWasm, chipPlaying >>
hostVars == << svcCreated, chip, ready, audioNode, currentNote, heldKeys,
               instruments, tuningTable, hlast >>
workletVars == << initialized, instantiating, wasmModule, wCurrentNote,
                  wInstruments, wTuningTable, chipType, instrumentRow,
                  tickCounter, samplesPerTick, raised, wlast >>
observeVars == << samples, ticks, visited, observed, fnCall, fnResult >>
editorVars == << muteStore, patterns, patternOrder, fromChip, lastTransport >>
sharedVars == << engine, addCalls, storeIsPlaying >>
vars == << sharedVars, editorVars, audioVars, chipVars, hostVars, port, toHost, workletVars,
           wasmInstances, mem, observeVars >>

\* the calls of addChipProcessor, each for a chip of its own
CallIds == 1 .. MaxCalls
\* no call was made yet
NoCalls == [id \in CallIds |-> "none"]

\* getChipIndex of the pattern editor: positions in chipProcessors
ChipIndexes == {0}
\* the store with no channel toggled yet
NoMutes == [c \in ChipIndexes |-> <<>>]

NoFn == [fn |-> "none"]
NoCall == [op |-> "none", key |-> Undefined, posted |-> FALSE]
Call(op, key, posted) == [op |-> op, key |-> key, posted |-> posted]
\* the value hlast / wlast takes when a call / a worklet step is recorded
Recorded(call) == IF "host" \in observed THEN call ELSE hlast
Noted(step) == IF "worklet" \in observed THEN step ELSE wlast

\* the program's own variables after `new AudioService()`
FreshProgram ==
    /\ addPc = "idle"
    /\ addChip = "none"
    /\ chipProcessors = <<>>
    /\ previewServices = <<>>
    /\ isPlaying = FALSE
    /\ audioError = "none"
    /\ procAudioNode = FALSE
    /\ chipPort = <<>>
    /\ chipWasm = 0
    /\ chipPlaying = FALSE
    /\ muteStore = NoMutes
    /\ patterns = {}
    /\ patternOrder = << 0 >>
    /\ fromChip = <<>>
    /\ lastTransport = "none"
    /\ addCalls = NoCalls
    /\ storeIsPlaying = FALSE
    /\ svcCreated = FALSE
    /\ chip = "none"
    /\ ready = FALSE
    /\ audioNode = FALSE
    /\ currentNote = Undefined
    /\ heldKeys = {}
    /\ instruments = <<>>
    /\ tuningTable = <<>>
    /\ hlast = NoCall
    /\ port = <<>>
    /\ toHost = <<>>
    /\ initialized = FALSE
    /\ instantiating = FALSE
    /\ wasmModule = 0
    /\ wCurrentNote = Undefined
    /\ wInstruments = <<>>
    /\ wTuningTable = <<>>
    /\ chipType = "none"
    /\ instrumentRow = 0
    /\ tickCounter = 0
    /\ samplesPerTick = 0
    /\ raised = FALSE
    /\ wlast = "none"
    /\ wasmInstances = {}
    /\ mem = [i \in Instances |-> ZeroRegs]
    /\ samples = 0
    /\ ticks = 0
    /\ visited = <<>>

\* state after `new AudioService()` and before any worklet exists
Fresh ==
    /\ FreshProgram
    /\ fnCall = NoFn
    /\ fnResult = 0

(***************************************************************************)
(* PreviewProcessor (audio worklet).  Each handler states the next value   *)
(* of every worklet variable, of the WASM memory and of the reply port.    *)
(***************************************************************************)
\* WebAssembly.instantiate: a fresh instance with its own memory
WasmInstantiateShared(insts) ==
    IF insts = {} THEN 1 ELSE CHOOSE i \in insts : TRUE
WasmInstantiate(insts) ==
    CHOOSE i \in Instances : i \notin insts /\ \A j \in Instances \ insts : i <= j

\* case 'init': the part of initialize before the await
WorkletInit(msg) ==
    /\ chipType' = msg.chipType
    /\ instantiating' = (msg.chipType = "ay")
    /\ wlast' = Noted("init")
    /\ UNCHANGED << initialized, wasmModule, wCurrentNote, wInstruments,
                    wTuningTable, instrumentRow, tickCounter, samplesPerTick,
                    raised, wasmInstances, mem, toHost >>

\* initialize after the await: the module is configured and 'ready' is
\* posted, or instantiation failed and the error is only logged
WorkletInstantiated(ok) ==
    /\ instantiating
    /\ instantiating' = FALSE
    /\ wlast' = Noted("instantiated")
    /\ IF ok
       THEN LET inst == WasmInstantiate(wasmInstances) IN
            /\ wasmModule' = inst
            /\ wasmInstances' = wasmInstances \cup {inst}
            /\ mem' = [mem EXCEPT ![inst] = ZeroRegs]
            /\ samplesPerTick' = SamplesPerTick(SampleRate)
            /\ initialized' = TRUE
            /\ toHost' = Append(toHost, [type |-> "ready"])
       ELSE UNCHANGED << wasmModule, wasmInstances, mem, samplesPerTick,
                         initialized, toHost >>
    /\ UNCHANGED << wCurrentNote, wInstruments, wTuningTable, chipType,
                    instrumentRow, tickCounter, raised >>

\* updateInstruments
WorkletUpdateInstruments(msg) ==
    /\ wInstruments' = msg.payload
    /\ wlast' = Noted("update_instruments")
    /\ UNCHANGED << initialized, instantiating, wasmModule, wCurrentNote,
                    wTuningTable, chipType, instrumentRow, tickCounter,
                    samplesPerTick, raised, wasmInstances, mem, toHost >>

\* the new table is applied to the sounding note at once
WorkletUpdateTuningTableApplied(msg) ==
    /\ wTuningTable' = msg.payload
    /\ wlast' = Noted("update_tuning_table")
    /\ mem' = IF wasmModule = 0 THEN mem
              ELSE [mem EXCEPT ![wasmModule] =
                       UpdateChipRegisters(engine, TRUE, chipType, @,
                                           wCurrentNote, instrumentRow,
                                           msg.payload)]
    /\ UNCHANGED << initialized, instantiating, wasmModule, wCurrentNote,
                    wInstruments, chipType, instrumentRow, tickCounter,
                    samplesPerTick, raised, wasmInstances, toHost >>

\* updateTuningTable
WorkletUpdateTuningTable(msg) ==
    /\ wTuningTable' = msg.payload
    /\ wlast' = Noted("update_tuning_table")
    /\ UNCHANGED << initialized, instantiating, wasmModule, wCurrentNote,
                    wInstruments, chipType, instrumentRow, tickCounter,
                    samplesPerTick, raised, wasmInstances, mem, toHost >>

\* the register writes of stopNote: volume 0 on all three channels
RECURSIVE StopNoteRegs(_, _)
StopNoteRegs(regs, i) ==
    IF i >= NumChannels THEN regs
    ELSE StopNoteRegs(ayumi_set_volume(regs, i, 0), i + 1)

\* stopNote without the reset of the tick accumulator
WorkletStopNoteKeepsCounter ==
    /\ wlast' = Noted("stop_note")
    /\ IF ~IsDef(wCurrentNote) \/ wasmModule = 0
       THEN UNCHANGED << wCurrentNote, instrumentRow, tickCounter, mem >>
       ELSE /\ mem' = [mem EXCEPT ![wasmModule] = StopNoteRegs(@, 0)]
            /\ wCurrentNote' = Undefined
            /\ instrumentRow' = 0
            /\ UNCHANGED tickCounter
    /\ UNCHANGED << initialized, instantiating, wasmModule, wInstruments,
                    wTuningTable, chipType, samplesPerTick, raised,
                    wasmInstances, toHost >>

\* stopNote
WorkletStopNote ==
    /\ wlast' = Noted("stop_note")
    /\ IF ~IsDef(wCurrentNote) \/ wasmModule = 0
       THEN UNCHANGED << wCurrentNote, instrumentRow, tickCounter, mem >>
       ELSE /\ mem' = [mem EXCEPT ![wasmModule] = StopNoteRegs(@, 0)]
            /\ wCurrentNote' = Undefined
            /\ instrumentRow' = 0
            /\ tickCounter' = 0
    /\ UNCHANGED << initialized, instantiating, wasmModule, wInstruments,
                    wTuningTable, chipType, samplesPerTick, raised,
                    wasmInstances, toHost >>

\* this.instruments[instrumentIndex] || null
InstrumentAt(table, instrumentIndex) ==
    IF instrumentIndex + 1 \in DOMAIN table
    THEN Some(table[instrumentIndex + 1]) ELSE Undefined

\* the note record stored by playNote
NewNote(msg, table) ==
    [noteName |-> msg.noteName, octave |-> msg.octave,
     instrumentIndex |-> msg.instrumentIndex,
     channelIndex |-> msg.channelIndex,
     baseNote |-> BaseNote(msg.noteName, msg.octave),
     instrument |-> InstrumentAt(table, msg.instrumentIndex),
     baseVolume |-> msg.baseVolume]

\* playNote that leaves a note already playing in place
WorkletPlayNoteKeepsNote(msg, row0, counter0) ==
    /\ wlast' = Noted("play_note")
    /\ IF ~initialized \/ wasmModule = 0 \/ IsDef(wCurrentNote)
       THEN UNCHANGED << wCurrentNote, instrumentRow, tickCounter, mem >>
       ELSE LET cur == Some(NewNote(msg, wInstruments))
            IN  /\ wCurrentNote' = cur
                /\ instrumentRow' = row0
                /\ tickCounter' = counter0
                /\ mem' = [mem EXCEPT ![wasmModule] =
                              UpdateChipRegisters(engine, TRUE, chipType, @,
                                                  cur, row0, wTuningTable)]
    /\ UNCHANGED << initialized, instantiating, wasmModule, wInstruments,
                    wTuningTable, chipType, samplesPerTick, raised,
                    wasmInstances, toHost >>

\* playNote, with the values it resets the cursor and the accumulator to
WorkletPlayNoteFrom(msg, row0, counter0) ==
    /\ wlast' = Noted("play_note")
    /\ IF ~initialized \/ wasmModule = 0
       THEN UNCHANGED << wCurrentNote, instrumentRow, tickCounter, mem >>
       ELSE LET stopped == IF IsDef(wCurrentNote)
                           THEN StopNoteRegs(mem[wasmModule], 0)
                           ELSE mem[wasmModule]
                cur == Some(NewNote(msg, wInstruments))
            IN  /\ wCurrentNote' = cur
                /\ instrumentRow' = row0
                /\ tickCounter' = counter0
                /\ mem' = [mem EXCEPT ![wasmModule] =
                              UpdateChipRegisters(engine, TRUE, chipType, stopped,
                                                  cur, row0, wTuningTable)]
    /\ UNCHANGED << initialized, instantiating, wasmModule, wInstruments,
                    wTuningTable, chipType, samplesPerTick, raised,
                    wasmInstances, toHost >>

\* playNote without its first test
WorkletPlayNoteUnguarded(msg) ==
    /\ wlast' = Noted("play_note")
    /\ wCurrentNote' = Some(NewNote(msg, wInstruments))
    /\ instrumentRow' = 0
    /\ tickCounter' = 0
    /\ mem' = IF wasmModule = 0 THEN mem
              ELSE [mem EXCEPT ![wasmModule] =
                       UpdateChipRegisters(engine, TRUE, chipType,
                           IF IsDef(wCurrentNote) THEN StopNoteRegs(@, 0) ELSE @,
                           wCurrentNote', 0, wTuningTable)]
    /\ UNCHANGED << initialized, instantiating, wasmModule, wInstruments,
                    wTuningTable, chipType, samplesPerTick, raised,
                    wasmInstances, toHost >>

WorkletPlayNoteNoReset(msg) ==
    WorkletPlayNoteFrom(msg, IF IsDef(wCurrentNote) THEN instrumentRow ELSE 0,
                        tickCounter)
WorkletPlayNote(msg) ==
    WorkletPlayNoteFrom(msg, 0, 0)

\* handleMessage
HandleMessage(msg) ==
    CASE msg.type = "init" -> WorkletInit(msg)
      [] msg.type = "play_note" -> WorkletPlayNote(msg)
      [] msg.type = "stop_note" -> WorkletStopNote
      [] msg.type = "update_instruments" -> WorkletUpdateInstruments(msg)
      [] msg.type = "update_tuning_table" -> WorkletUpdateTuningTable(msg)

\* a tick fires in this call of process
TickFires(blockSize) ==
    /\ initialized /\ wasmModule # 0
    /\ IsDef(wCurrentNote)
    /\ tickCounter + blockSize >= samplesPerTick

\* process, including the advanceInstrument and updateChipRegisters it
\* triggers; the rendering loop changes no modelled state
ProcessBody(blockSize) ==
    /\ ~raised
    /\ IF ~TickFires(blockSize)
       THEN /\ tickCounter' =
                   IF initialized /\ wasmModule # 0 /\ IsDef(wCurrentNote)
                   THEN tickCounter + blockSize ELSE tickCounter
            /\ wlast' = Noted("process")
            /\ UNCHANGED << instrumentRow, mem, raised >>
       ELSE /\ tickCounter' = tickCounter + blockSize - samplesPerTick
            /\ IF ~IsDef(Val(wCurrentNote).instrument)
               THEN /\ wlast' = Noted("tick")
                    /\ UNCHANGED << instrumentRow, mem, raised >>
               ELSE LET row == AdvanceRow(Val(Val(wCurrentNote).instrument),
                                          instrumentRow)
                    IN  /\ instrumentRow' = row
                        /\ IF UpdateChipRegistersThrows(TRUE, chipType,
                                                        wCurrentNote, row)
                           THEN /\ raised' = TRUE
                                /\ wlast' = Noted("throw")
                                /\ UNCHANGED mem
                           ELSE /\ mem' = [mem EXCEPT ![wasmModule] =
                                       UpdateChipRegisters(engine, TRUE, chipType, @,
                                           wCurrentNote, row, wTuningTable)]
                                /\ wlast' = Noted("tick")
                                /\ UNCHANGED raised
    /\ UNCHANGED << initialized, instantiating, wasmModule, wCurrentNote,
                    wInstruments, wTuningTable, chipType, samplesPerTick,
                    wasmInstances, toHost >>

(***************************************************************************)
(* PreviewNoteService (host side).                                         *)
(***************************************************************************)
hostFrame == << sharedVars, editorVars, audioVars, chipVars, toHost, workletVars,
                wasmInstances, mem, observeVars >>

\* the test that makes playNote return without restarting the note
IsSameNoteNever(cur, noteName, octave, instrumentIndex, channelIndex) ==
    FALSE
IsSameNote(cur, noteName, octave, instrumentIndex, channelIndex) ==
    /\ IsDef(cur)
    /\ Val(cur).noteName = noteName
    /\ Val(cur).octave = octave
    /\ Val(cur).instrumentIndex = instrumentIndex
    /\ Val(cur).channelIndex = channelIndex

\* playNote that tracks the key only when it starts a note
PlayNoteUntracked(noteName, octave, instrumentIndex, channelIndex, key, baseVolume) ==
    /\ svcCreated
    /\ Len(port) < MaxQueue
    /\ IF ~audioNode \/ ~ready
       THEN /\ hlast' = Recorded(Call("playNote", Some(key), FALSE))
            /\ UNCHANGED << heldKeys, currentNote, port >>
       ELSE IF IsSameNote(currentNote, noteName, octave, instrumentIndex,
                          channelIndex)
            THEN /\ hlast' = Recorded(Call("playNote", Some(key), FALSE))
                 /\ UNCHANGED << heldKeys, currentNote, port >>
            ELSE /\ heldKeys' = heldKeys \cup {key}
                 /\ currentNote' =
                       Some([noteName |-> noteName, octave |-> octave,
                             instrumentIndex |-> instrumentIndex,
                             channelIndex |-> channelIndex, key |-> key])
                 /\ port' = Append(port,
                       PlayNoteMsg(noteName, octave, instrumentIndex,
                                   channelIndex, baseVolume))
                 /\ hlast' = Recorded(Call("playNote", Some(key), TRUE))
    /\ UNCHANGED << svcCreated, chip, ready, audioNode, instruments, tuningTable >>
    /\ UNCHANGED hostFrame

\* playNote
PlayNote(noteName, octave, instrumentIndex, channelIndex, key, baseVolume) ==
    /\ svcCreated
    /\ Len(port) < MaxQueue
    /\ IF ~audioNode \/ ~ready
       THEN /\ hlast' = Recorded(Call("playNote", Some(key), FALSE))
            /\ UNCHANGED << heldKeys, currentNote, port >>
       ELSE /\ heldKeys' = heldKeys \cup {key}
            /\ IF IsSameNote(currentNote, noteName, octave, instrumentIndex,
                             channelIndex)
               THEN /\ hlast' = Recorded(Call("playNote", Some(key), FALSE))
                    /\ UNCHANGED << currentNote, port >>
               ELSE /\ currentNote' =
                          Some([noteName |-> noteName, octave |-> octave,
                                instrumentIndex |-> instrumentIndex,
                                channelIndex |-> channelIndex, key |-> key])
                    /\ port' = Append(port,
                          PlayNoteMsg(noteName, octave, instrumentIndex,
                                      channelIndex, baseVolume))
                    /\ hlast' = Recorded(Call("playNote", Some(key), TRUE))
    /\ UNCHANGED << svcCreated, chip, ready, audioNode, instruments, tuningTable >>
    /\ UNCHANGED hostFrame

\* the condition under which stopNote silences the voice, evaluated on the
\* held-key set after the key was removed
ShouldSilenceAlways(held, keyOpt) ==
    TRUE
ShouldSilence(held, keyOpt) ==
    Cardinality(held) = 0 \/ ~IsDef(keyOpt)

\* stopNote(key?) without the heldKeys.clear() at its end
StopNoteKeepsKeys(keyOpt) ==
    /\ svcCreated
    /\ Len(port) < MaxQueue
    /\ IF ~audioNode \/ ~ready
       THEN /\ hlast' = Recorded(Call("stopNote", keyOpt, FALSE))
            /\ UNCHANGED << heldKeys, currentNote, port >>
       ELSE LET held == IF IsDef(keyOpt) THEN heldKeys \ {Val(keyOpt)}
                                         ELSE heldKeys
            IN  /\ heldKeys' = held
                /\ IF ShouldSilence(held, keyOpt)
                   THEN /\ port' = Append(port, StopNoteMsg)
                        /\ currentNote' = Undefined
                        /\ hlast' = Recorded(Call("stopNote", keyOpt, TRUE))
                   ELSE /\ hlast' = Recorded(Call("stopNote", keyOpt, FALSE))
                        /\ UNCHANGED << currentNote, port >>
    /\ UNCHANGED << svcCreated, chip, ready, audioNode, instruments, tuningTable >>
    /\ UNCHANGED hostFrame

\* stopNote(key?)
StopNote(keyOpt) ==
    /\ svcCreated
    /\ Len(port) < MaxQueue
    /\ IF ~audioNode \/ ~ready
       THEN /\ hlast' = Recorded(Call("stopNote", keyOpt, FALSE))
            /\ UNCHANGED << heldKeys, currentNote, port >>
       ELSE LET held == IF IsDef(keyOpt) THEN heldKeys \ {Val(keyOpt)}
                                         ELSE heldKeys
            IN  IF ShouldSilence(held, keyOpt)
                THEN /\ port' = Append(port, StopNoteMsg)
                     /\ currentNote' = Undefined
                     /\ heldKeys' = {}
                     /\ hlast' = Recorded(Call("stopNote", keyOpt, TRUE))
                ELSE /\ heldKeys' = held
                     /\ hlast' = Recorded(Call("stopNote", keyOpt, FALSE))
                     /\ UNCHANGED << currentNote, port >>
    /\ UNCHANGED << svcCreated, chip, ready, audioNode, instruments, tuningTable >>
    /\ UNCHANGED hostFrame

\* updateInstruments
UpdateInstruments(table) ==
    /\ svcCreated
    /\ Len(port) < MaxQueue
    /\ instruments' = table
    /\ IF audioNode /\ ready
       THEN /\ port' = Append(port, UpdateInstrumentsMsg(table))
            /\ hlast' = Recorded(Call("updateInstruments", Undefined, TRUE))
       ELSE /\ hlast' = Recorded(Call("updateInstruments", Undefined, FALSE))
            /\ UNCHANGED port
    /\ UNCHANGED << svcCreated, chip, ready, audioNode, currentNote, heldKeys,
                    tuningTable >>
    /\ UNCHANGED hostFrame

\* updateTuningTable
UpdateTuningTable(tt) ==
    /\ svcCreated
    /\ Len(port) < MaxQueue
    /\ tuningTable' = tt
    /\ IF audioNode /\ ready
       THEN /\ port' = Append(port, UpdateTuningTableMsg(tt))
            /\ hlast' = Recorded(Call("updateTuningTable", Undefined, TRUE))
       ELSE /\ hlast' = Recorded(Call("updateTuningTable", Undefined, FALSE))
            /\ UNCHANGED port
    /\ UNCHANGED << svcCreated, chip, ready, audioNode, currentNote, heldKeys,
                    instruments >>
    /\ UNCHANGED hostFrame

\* the assignments of destroy
DestroyEffect ==
    /\ audioNode' = FALSE
    /\ ready' = FALSE
    /\ currentNote' = Undefined
    /\ heldKeys' = {}
    /\ hlast' = Recorded(Call("destroy", Undefined, FALSE))
    /\ UNCHANGED << svcCreated, chip, instruments, tuningTable, port >>

\* destroy
Destroy ==
    /\ svcCreated
    /\ audioNode \/ ready
    /\ DestroyEffect
    /\ UNCHANGED hostFrame

\* the onmessage handler installed by initialize, and the continuation of
\* addChipProcessor that the resolved promise resumes
HostOnMessage ==
    /\ toHost # <<>>
    /\ toHost' = Tail(toHost)
    /\ ready' = (ready \/ Head(toHost).type = "ready")
    /\ IF Head(toHost).type = "ready" /\ addPc = "awaitReady"
       THEN /\ previewServices' = Append(previewServices, 1)
            /\ addPc' = "done"
       ELSE UNCHANGED << previewServices, addPc >>
    /\ UNCHANGED << addChip, chipProcessors, isPlaying, audioError >>
    /\ UNCHANGED << svcCreated, chip, audioNode, currentNote, heldKeys,
                    instruments, tuningTable, hlast, port >>
    /\ UNCHANGED << sharedVars, editorVars, chipVars, workletVars, wasmInstances, mem,
                    observeVars >>

\* initialize after addModule: the node is created and 'init' is posted
PreviewInitializePost ==
    /\ addPc = "previewModule"
    /\ Len(port) < MaxQueue
    /\ audioNode' = TRUE
    /\ port' = Append(port, InitMsg(chip, SampleRate))
    /\ addPc' = "awaitReady"
    /\ UNCHANGED << addChip, chipProcessors, previewServices, isPlaying,
                    audioError >>
    /\ UNCHANGED << svcCreated, chip, ready, currentNote, heldKeys,
                    instruments, tuningTable, hlast >>
    /\ UNCHANGED << sharedVars, editorVars, chipVars, toHost, workletVars, wasmInstances, mem,
                    observeVars >>

(***************************************************************************)
(* AudioService and the chip processor used for full playback.             *)
(***************************************************************************)
previewFrame == << svcCreated, chip, ready, audioNode, currentNote, heldKeys,
                   instruments, tuningTable, hlast, port, toHost >>

\* the commands a chip processor posts to its worklet
ChipCommand(type) == [type |-> type]
PlayFromRowCommand(row, patternOrderIndex, speed) ==
    [type |-> "play_from_row", row |-> row,
     patternOrderIndex |-> patternOrderIndex, speed |-> speed]
UpdateParameterCommand(name, value) ==
    [type |-> "update_parameter", name |-> name, value |-> value]
SetPatternDataCommand(pattern) ==
    [type |-> "set_pattern_data", pattern |-> pattern]
\* `channelMute_${channelIndex}`
ChannelMute(channelIndex) == << "channelMute", channelIndex >>

IsStart(cmd) == cmd.type = "play" \/ cmd.type = "play_from_row"
IsTransport(cmd) == IsStart(cmd) \/ cmd.type = "stop"

\* addChipProcessor up to its first await: the processor is pushed
AddChipProcessor(c) ==
    /\ addPc = "idle"
    /\ addChip' = c
    /\ chipProcessors' = Append(chipProcessors, 1)
    /\ addPc' = "loading"
    /\ UNCHANGED << previewServices, isPlaying, audioError >>
    /\ UNCHANGED << sharedVars, editorVars, chipVars, previewFrame, workletVars, wasmInstances,
                    mem, observeVars >>

\* addChipProcessor after the fetch and addModule awaits: createAudioNode,
\* processor.initialize, and the start of previewService.initialize
AddChipProcessorLoaded ==
    /\ addPc = "loading"
    /\ Len(chipPort) < MaxChipQueue
    /\ IF chipProcessors = <<>>
       THEN /\ addPc' = "failed"
            /\ audioError' = "createAudioNode"
            /\ UNCHANGED << procAudioNode, chipPort, svcCreated, chip >>
       ELSE /\ procAudioNode' = TRUE
            /\ chipPort' = Append(chipPort, ChipCommand("init"))
            /\ svcCreated' = TRUE
            /\ chip' = addChip
            /\ addPc' = "previewModule"
            /\ UNCHANGED audioError
    /\ UNCHANGED << addChip, chipProcessors, previewServices, isPlaying >>
    /\ UNCHANGED << chipWasm, chipPlaying >>
    /\ UNCHANGED << ready, audioNode, currentNote, heldKeys, instruments,
                    tuningTable, hlast, port, toHost >>
    /\ UNCHANGED << sharedVars, editorVars, workletVars, wasmInstances, mem, observeVars >>

\* applyMuteStateToAllChips: one updateParameter per channel the store holds
\* for the processor's position, in channel order
MuteCommands(procs, store) ==
    IF procs = <<>>
    THEN <<>>
    ELSE [c \in 1..Len(store[0]) |->
             UpdateParameterCommand(ChannelMute(c - 1), store[0][c])]

\* the start command is sent first and the mute state after it
StartCommandsStartFirst(procs, store, start) ==
    << start >> \o MuteCommands(procs, store)

\* play / playFromRow after the flag is set: the mute state of all chips,
\* then the start command to each chip processor
StartCommands(procs, store, start) ==
    MuteCommands(procs, store) \o << start >>

\* the last start or stop among the commands, as it is observed
TransportAfter(cmds) ==
    LET ts == SelectSeq(cmds, IsTransport) IN
    IF "transport" \notin observed \/ ts = <<>>
    THEN lastTransport
    ELSE IF IsStart(ts[Len(ts)]) THEN "start" ELSE "stop"

\* sendCommand on every chip processor: raises when the node is missing
SendToChips(cmds) ==
    IF chipProcessors # <<>> /\ ~procAudioNode
    THEN /\ audioError' = "Audio node not available"
         /\ UNCHANGED << chipPort, lastTransport >>
    ELSE /\ chipPort' = IF chipProcessors # <<>> THEN chipPort \o cmds
                                                 ELSE chipPort
         /\ lastTransport' = IF chipProcessors # <<>> THEN TransportAfter(cmds)
                                                      ELSE lastTransport
         /\ UNCHANGED audioError

playbackFrame == << addPc, addChip, chipProcessors, previewServices,
                    procAudioNode, chipWasm, chipPlaying, muteStore, patterns,
                    patternOrder, fromChip, sharedVars, previewFrame,
                    workletVars,
                    wasmInstances, mem, observeVars >>

\* play
Play ==
    /\ Len(chipPort) < MaxChipQueue
    /\ IF isPlaying
       THEN UNCHANGED << isPlaying, audioError, chipPort, lastTransport >>
       ELSE /\ isPlaying' = TRUE
            /\ SendToChips(StartCommands(chipProcessors, muteStore,
                                         ChipCommand("play")))
    /\ UNCHANGED playbackFrame

\* playFromRow
PlayFromRow(row, patternOrderIndex, speed) ==
    /\ Len(chipPort) < MaxChipQueue
    /\ IF isPlaying
       THEN UNCHANGED << isPlaying, audioError, chipPort, lastTransport >>
       ELSE /\ isPlaying' = TRUE
            /\ SendToChips(StartCommands(chipProcessors, muteStore,
                   PlayFromRowCommand(row, patternOrderIndex, speed)))
    /\ UNCHANGED playbackFrame

\* stop
Stop ==
    /\ Len(chipPort) < MaxChipQueue
    /\ IF ~isPlaying
       THEN UNCHANGED << isPlaying, audioError, chipPort, lastTransport >>
       ELSE /\ isPlaying' = FALSE
            /\ SendToChips(<< ChipCommand("stop") >>)
    /\ UNCHANGED playbackFrame

\* clearChipProcessors: stop when playing, destroy the preview services,
\* empty both lists; a stop that raises leaves the rest undone
ClearChipProcessors ==
    /\ chipProcessors # <<>> \/ previewServices # <<>> \/ isPlaying
    /\ Len(chipPort) < MaxChipQueue
    /\ IF isPlaying /\ chipProcessors # <<>> /\ ~procAudioNode
       THEN /\ isPlaying' = FALSE
            /\ audioError' = "Audio node not available"
            /\ UNCHANGED << chipPort, lastTransport, chipProcessors,
                            previewServices >>
            /\ UNCHANGED << svcCreated, chip, ready, audioNode, currentNote,
                            heldKeys, instruments, tuningTable, hlast, port >>
       ELSE /\ isPlaying' = FALSE
            /\ chipPort' = IF isPlaying /\ chipProcessors # <<>>
                           THEN Append(chipPort, ChipCommand("stop"))
                           ELSE chipPort
            /\ lastTransport' =
                   IF isPlaying /\ chipProcessors # <<>>
                   THEN TransportAfter(<< ChipCommand("stop") >>)
                   ELSE lastTransport
            /\ IF previewServices # <<>>
               THEN DestroyEffect
               ELSE UNCHANGED << svcCreated, chip, ready, audioNode,
                                 currentNote, heldKeys, instruments,
                                 tuningTable, hlast, port >>
            /\ previewServices' = <<>>
            /\ chipProcessors' = <<>>
            /\ UNCHANGED audioError
    /\ UNCHANGED << addPc, addChip >>
    /\ UNCHANGED << procAudioNode, chipWasm, chipPlaying >>
    /\ UNCHANGED << muteStore, patterns, patternOrder, fromChip >>
    /\ UNCHANGED << sharedVars, toHost, workletVars, wasmInstances, mem,
                    observeVars >>

\* channelMuteStore.toggleChannel: the channel's flag is inverted, a chip
\* never toggled before starts with every channel audible
Toggled(entry, channelIndex) ==
    LET old == IF entry = <<>> THEN [c \in 1..NumChannels |-> FALSE]
               ELSE entry IN
    [old EXCEPT ![channelIndex + 1] = ~@]

\* a click on a channel header of the pattern editor: the store is toggled
\* and the new flag is sent to the editor's chip processor
ToggleChannel(chipIndex, channelIndex) ==
    /\ chipIndex < Len(chipProcessors)
    /\ Len(chipPort) < MaxChipQueue
    /\ muteStore' = [muteStore EXCEPT ![chipIndex] = Toggled(@, channelIndex)]
    /\ SendToChips(<< UpdateParameterCommand(ChannelMute(channelIndex),
                          Toggled(muteStore[chipIndex], channelIndex)
                              [channelIndex + 1]) >>)
    /\ UNCHANGED << addPc, addChip, chipProcessors, previewServices,
                    isPlaying >>
    /\ UNCHANGED << procAudioNode, chipWasm, chipPlaying >>
    /\ UNCHANGED << patterns, patternOrder, fromChip >>
    /\ UNCHANGED << sharedVars, previewFrame, workletVars, wasmInstances, mem,
                    observeVars >>

\* the chip processor's worklet takes the next command from its port; on
\* 'init' it instantiates the generator it plays the song on
ChipWorkletHandle ==
    /\ chipPort # <<>>
    /\ chipPort' = Tail(chipPort)
    /\ IF Head(chipPort).type = "init"
       THEN LET inst == CHOOSE i \in Instances : i \notin wasmInstances IN
            /\ chipWasm' = inst
            /\ wasmInstances' = wasmInstances \cup {inst}
            /\ mem' = [mem EXCEPT ![inst] = ZeroRegs]
            /\ UNCHANGED chipPlaying
       ELSE /\ chipPlaying' = IF IsTransport(Head(chipPort))
                              THEN IsStart(Head(chipPort))
                              ELSE chipPlaying
            /\ UNCHANGED << chipWasm, wasmInstances, mem >>
    /\ UNCHANGED procAudioNode
    /\ UNCHANGED << sharedVars, editorVars, audioVars, previewFrame, workletVars,
                    observeVars >>

\* the chip processor's worklet reaches an order position whose pattern it
\* has to ask the host for
ChipRequestPattern(patternOrderIndex) ==
    /\ chipWasm # 0
    /\ chipPlaying
    /\ Len(fromChip) < MaxChipQueue
    /\ fromChip' = Append(fromChip, [type |-> "request_pattern",
                                     patternOrderIndex |-> patternOrderIndex])
    /\ UNCHANGED << muteStore, patterns, patternOrder, lastTransport >>
    /\ UNCHANGED << sharedVars, audioVars, chipVars, previewFrame, workletVars,
                    wasmInstances, mem, observeVars >>

\* PatternService.createEmptyPattern
EmptyPattern(patternId) == [id |-> patternId, content |-> 0]

\* latestPatterns.find((p) => p.id === patternId) || createEmptyPattern
RequestedPattern(latestPatterns, patternId) ==
    IF \E q \in latestPatterns : q.id = patternId
    THEN CHOOSE q \in latestPatterns : q.id = patternId
    ELSE EmptyPattern(patternId)

\* the reply is built for the position before the requested one
HandlePatternRequestOffByOne(latestPatterns, latestPatternOrder, requestedOrderIndex) ==
    IF requestedOrderIndex >= 1 /\ requestedOrderIndex <= Len(latestPatternOrder)
    THEN << SetPatternDataCommand(
                RequestedPattern(latestPatterns,
                                 latestPatternOrder[requestedOrderIndex])) >>
    ELSE <<>>

\* handlePatternRequest: what it has the chip processor send
HandlePatternRequest(latestPatterns, latestPatternOrder, requestedOrderIndex) ==
    IF requestedOrderIndex >= 0 /\ requestedOrderIndex < Len(latestPatternOrder)
    THEN << SetPatternDataCommand(
                RequestedPattern(latestPatterns,
                                 latestPatternOrder[requestedOrderIndex + 1])) >>
    ELSE <<>>

\* audioNode.port.onmessage of the chip processor: request_pattern goes to
\* the editor's handlePatternRequest, whose reply is posted at once
HandleWorkletMessage ==
    /\ fromChip # <<>>
    /\ Len(chipPort) < MaxChipQueue
    /\ fromChip' = Tail(fromChip)
    /\ chipPort' = IF Head(fromChip).type = "request_pattern"
                   THEN chipPort \o HandlePatternRequest(patterns, patternOrder,
                                        Head(fromChip).patternOrderIndex)
                   ELSE chipPort
    /\ UNCHANGED << procAudioNode, chipWasm, chipPlaying >>
    /\ UNCHANGED << muteStore, patterns, patternOrder, lastTransport >>
    /\ UNCHANGED << sharedVars, audioVars, previewFrame, workletVars,
                    wasmInstances, mem, observeVars >>

\* the pattern list bound to the editor is replaced (an edit)
SetPatterns(newPatterns) ==
    /\ patterns' = newPatterns
    /\ UNCHANGED << muteStore, patternOrder, fromChip, lastTransport >>
    /\ UNCHANGED << sharedVars, audioVars, chipVars, previewFrame, workletVars,
                    wasmInstances, mem, observeVars >>

\* the order table bound to the editor is replaced (an edit)
SetPatternOrder(newOrder) ==
    /\ patternOrder' = newOrder
    /\ UNCHANGED << muteStore, patterns, fromChip, lastTransport >>
    /\ UNCHANGED << sharedVars, audioVars, chipVars, previewFrame, workletVars,
                    wasmInstances, mem, observeVars >>

(***************************************************************************)
(* Steps of the preview worklet.                                           *)
(***************************************************************************)
workletEnv == << sharedVars, editorVars, audioVars, chipVars, svcCreated, chip, ready,
                 audioNode, currentNote, heldKeys, instruments, tuningTable,
                 hlast >>

\* port.onmessage: the oldest posted message is handled
WorkletReceive ==
    /\ port # <<>>
    /\ port' = Tail(port)
    /\ HandleMessage(Head(port))
    /\ UNCHANGED << workletEnv, observeVars >>

\* the WebAssembly.instantiate promise settles
WorkletInstantiatedStep(ok) ==
    /\ WorkletInstantiated(ok)
    /\ UNCHANGED << workletEnv, port, observeVars >>

\* what is recorded of the note being rendered
ObserveProcess(blockSize) ==
    IF "ticks" \in observed
    THEN /\ samples' = samples + blockSize
         /\ ticks' = ticks + (IF TickFires(blockSize) THEN 1 ELSE 0)
         /\ visited' = IF TickFires(blockSize)
                          /\ IsDef(Val(wCurrentNote).instrument)
                       THEN Append(visited, instrumentRow')
                       ELSE visited
    ELSE UNCHANGED << samples, ticks, visited >>

\* one render quantum
Process(blockSize) ==
    /\ "ticks" \in observed => samples + blockSize <= MaxSamples
    /\ ProcessBody(blockSize)
    /\ ObserveProcess(blockSize)
    /\ UNCHANGED << workletEnv, port, observed, fnCall, fnResult >>

\* updateChipRegisters called on the worklet as it stands: the calls it
\* makes are recorded and applied to the generator
Rederive ==
    /\ ~raised
    /\ fnCall' = [fn |-> "updateChipRegisters"]
    /\ wlast' = Noted("updateChipRegisters")
    /\ IF UpdateChipRegistersThrows(wasmModule # 0, chipType, wCurrentNote,
                                    instrumentRow)
       THEN /\ raised' = TRUE
            /\ fnResult' = <<>>
            /\ UNCHANGED mem
       ELSE LET ws == RegisterWrites(engine, wasmModule # 0, chipType,
                                     wCurrentNote, instrumentRow, wTuningTable)
            IN  /\ fnResult' = ws
                /\ mem' = IF wasmModule # 0
                          THEN [mem EXCEPT ![wasmModule] = ApplyWrites(@, ws)]
                          ELSE mem
                /\ UNCHANGED raised
    /\ UNCHANGED << initialized, instantiating, wasmModule, wCurrentNote,
                    wInstruments, wTuningTable, chipType, instrumentRow,
                    tickCounter, samplesPerTick, wasmInstances, toHost >>
    /\ UNCHANGED << workletEnv, port, samples, ticks, visited, observed >>

(***************************************************************************)
(* Spec: AudioService with full playback, PreviewNoteService and the       *)
(* worklet together, one note and one key.                                 *)
(***************************************************************************)
Init ==
    /\ engine \in Engines
    /\ observed = {}
    /\ Fresh

Next ==
    \/ \E c \in ChipTypes : AddChipProcessor(c)
    \/ AddChipProcessorLoaded
    \/ PreviewInitializePost
    \/ HostOnMessage
    \/ Play
    \/ Stop
    \/ ClearChipProcessors
    \/ ChipWorkletHandle
    \/ \E n \in SoloNoteNames, o \in Octaves, i \in HostInstrumentIndexes,
          c \in HostChannels, k \in SoloKeys, v \in HostVolumes :
          PlayNote(n, o, i, c, k, v)
    \/ \E k \in SoloKeys : StopNote(Some(k))
    \/ StopNote(Undefined)
    \/ \E t \in HostInstrumentTables : UpdateInstruments(t)
    \/ \E t \in HostTuningTables : UpdateTuningTable(t)
    \/ Destroy
    \/ WorkletReceive
    \/ \E ok \in BOOLEAN : WorkletInstantiatedStep(ok)
    \/ \E b \in BlockSizes : Process(b)

Spec == Init /\ [][Next]_vars

(***************************************************************************)
(* SpecHost: the preview service driven with two keys and two notes, the   *)
(* worklet behind it; no full playback.                                    *)
(***************************************************************************)
InitHost ==
    /\ engine = "linear"
    /\ observed = {"host"}
    /\ Fresh

NextHost ==
    \/ AddChipProcessor("ay")
    \/ AddChipProcessorLoaded
    \/ PreviewInitializePost
    \/ HostOnMessage
    \/ \E n \in NoteNames, o \in Octaves, i \in HostInstrumentIndexes,
          c \in HostChannels, k \in Keys, v \in HostVolumes :
          PlayNote(n, o, i, c, k, v)
    \/ \E k \in Keys : StopNote(Some(k))
    \/ StopNote(Undefined)
    \/ \E t \in HostInstrumentTables : UpdateInstruments(t)
    \/ Destroy
    \/ WorkletReceive
    \/ WorkletInstantiatedStep(TRUE)
    \/ \E b \in BlockSizes : Process(b)

SpecHost == InitHost /\ [][NextHost]_vars

(***************************************************************************)
(* SpecWorklet: the worklet alone, handling whatever arrives on its port.  *)
(***************************************************************************)
\* a message is posted to the port and handled by port.onmessage; 'init' is
\* posted once per worklet
Deliver(msg) ==
    /\ port = <<>>
    /\ msg.type = "init" => chipType = "none"
    /\ HandleMessage(msg)
    /\ UNCHANGED << workletEnv, port, observeVars >>

InitWorklet ==
    /\ engine \in Engines
    /\ observed = {"worklet"}
    /\ Fresh

NextWorklet ==
    \/ \E c \in ChipTypes : Deliver(InitMsg(c, SampleRate))
    \/ \E n \in WNoteNames, o \in Octaves, i \in WInstrumentIndexes,
          c \in WChannels, v \in WVolumes :
          Deliver(PlayNoteMsg(n, o, i, c, v))
    \/ Deliver(StopNoteMsg)
    \/ \E t \in WInstrumentTables : Deliver(UpdateInstrumentsMsg(t))
    \/ \E t \in WTuningTables : Deliver(UpdateTuningTableMsg(t))
    \/ \E ok \in BOOLEAN : WorkletInstantiatedStep(ok)
    \/ \E b \in BlockSizes : Process(b)

SpecWorklet == InitWorklet /\ [][NextWorklet]_vars

(***************************************************************************)
(* SpecUninit: the preview service called at any time of its life, and     *)
(* play_note reaching the worklet at any time of its initialisation.       *)
(***************************************************************************)
InitUninit ==
    /\ engine = "table"
    /\ observed = {"host", "worklet"}
    /\ Fresh

NextUninit ==
    \/ AddChipProcessor("ay")
    \/ AddChipProcessorLoaded
    \/ PreviewInitializePost
    \/ HostOnMessage
    \/ \E n \in NoteNames, o \in Octaves, i \in HostInstrumentIndexes,
          c \in HostChannels, k \in Keys, v \in HostVolumes :
          PlayNote(n, o, i, c, k, v)
    \/ \E k \in Keys : StopNote(Some(k))
    \/ StopNote(Undefined)
    \/ Destroy
    \/ WorkletReceive
    \/ WorkletInstantiatedStep(TRUE)
    \/ \E n \in SoloNoteNames, o \in Octaves, i \in HostInstrumentIndexes,
          c \in HostChannels, v \in HostVolumes :
          Deliver(PlayNoteMsg(n, o, i, c, v))

SpecUninit == InitUninit /\ [][NextUninit]_vars

(***************************************************************************)
(* SpecRederive: the worklet alone, with updateChipRegisters also called   *)
(* on its own between the messages and the render quanta.                  *)
(***************************************************************************)
NextRederive ==
    \/ Deliver(InitMsg("ay", SampleRate))
    \/ WorkletInstantiatedStep(TRUE)
    \/ \E t \in HostInstrumentTables : Deliver(UpdateInstrumentsMsg(t))
    \/ \E n \in WNoteNames, o \in Octaves, i \in WInstrumentIndexes,
          c \in WChannels, v \in HostVolumes :
          Deliver(PlayNoteMsg(n, o, i, c, v))
    \/ Deliver(StopNoteMsg)
    \/ \E b \in BlockSizes : Process(b)
    \/ Rederive

SpecRederive == InitWorklet /\ [][NextRederive]_vars

(***************************************************************************)
(* SpecPlayback: full playback started and stopped at any time around the  *)
(* loading of the chip processor, with channels muted and unmuted.         *)
(***************************************************************************)
StartRows == {0, 1}
StartOrderIndexes == {Undefined, Some(0)}
StartSpeeds == {Undefined}
MuteChannels == 0..(NumChannels - 1)

InitPlayback ==
    /\ engine = "table"
    /\ observed = {"transport"}
    /\ Fresh

NextPlayback ==
    \/ AddChipProcessor("ay")
    \/ AddChipProcessorLoaded
    \/ Play
    \/ \E row \in StartRows, poi \in StartOrderIndexes, speed \in StartSpeeds :
          PlayFromRow(row, poi, speed)
    \/ Stop
    \/ ClearChipProcessors
    \/ \E ci \in ChipIndexes, ch \in MuteChannels : ToggleChannel(ci, ch)
    \/ ChipWorkletHandle

SpecPlayback == InitPlayback /\ [][NextPlayback]_vars

(***************************************************************************)
(* SpecPattern: the chip processor's worklet asks for patterns by order    *)
(* position while the pattern list and the order table are edited.         *)
(***************************************************************************)
PatternIds == {0, 1}
PatternContents == {1, 2}
\* pattern lists in which an id occurs once
PatternLists ==
    { ps \in SUBSET [id : PatternIds, content : PatternContents] :
         \A q1, q2 \in ps : q1.id = q2.id => q1 = q2 }
PatternOrders ==
    UNION { [1..n -> PatternIds] : n \in 0..MaxOrderLength }
RequestedOrderIndexes == -1..MaxOrderLength

InitPattern ==
    /\ engine = "table"
    /\ observed = {}
    /\ Fresh

NextPattern ==
    \/ AddChipProcessor("ay")
    \/ AddChipProcessorLoaded
    \/ Play
    \/ Stop
    \/ ChipWorkletHandle
    \/ \E idx \in RequestedOrderIndexes : ChipRequestPattern(idx)
    \/ HandleWorkletMessage
    \/ \E ps \in PatternLists : SetPatterns(ps)
    \/ \E o \in PatternOrders : SetPatternOrder(o)

SpecPattern == InitPattern /\ [][NextPattern]_vars

(***************************************************************************)
(* SpecClamp: the worklet alone, given base volumes, instrument volumes    *)
(* and noise values inside and outside the register domains.               *)
(***************************************************************************)
ClampVolumes == {-1, 0, 15, 16}
\* rows with a volume above 15, a volume below 0, and noise values outside
\* 0 .. 31
InstWide ==
    Instrument(<< PlainRow(17),
                  Row(0, Some(-2), Some(TRUE), Some(TRUE), Undefined, Some(-1)),
                  Row(0, Some(15), Some(TRUE), Some(TRUE), Undefined, Some(40)) >>,
               Some(0))
ClampInstrumentIndexes == {0, 1}

NextClamp ==
    \/ Deliver(InitMsg("ay", SampleRate))
    \/ WorkletInstantiatedStep(TRUE)
    \/ Deliver(UpdateInstrumentsMsg(<< InstWide >>))
    \/ \E i \in ClampInstrumentIndexes, v \in ClampVolumes :
          Deliver(PlayNoteMsg(11, 4, i, 0, v))
    \/ Deliver(StopNoteMsg)
    \/ \E b \in BlockSizes : Process(b)

SpecClamp == InitWorklet /\ [][NextClamp]_vars

(***************************************************************************)
(* SpecTick: one note rendered in blocks of any size, with the samples,    *)
(* the ticks and the cursor walk recorded.                                 *)
(***************************************************************************)
\* instruments of 0 .. MaxRows rows with every loop setting
TickInstruments ==
    { Instrument([r \in 1 .. n |-> PlainRow(15 - r)], l) :
        n \in 0 .. MaxRows,
        l \in {Undefined} \cup { Some(x) : x \in -1 .. MaxRows } }

TickNoteMsg == PlayNoteMsg(11, 4, 0, 0, DefaultVolume)

\* the worklet after 'init', update_instruments with a one-instrument table
\* and play_note for it have been handled; nothing else has started
InitTick ==
    /\ engine \in Engines
    /\ observed = {"ticks"}
    /\ addPc = "idle"
    /\ addChip = "none"
    /\ chipProcessors = <<>>
    /\ previewServices = <<>>
    /\ isPlaying = FALSE
    /\ audioError = "none"
    /\ procAudioNode = FALSE
    /\ chipPort = <<>>
    /\ chipWasm = 0
    /\ chipPlaying = FALSE
    /\ muteStore = NoMutes
    /\ patterns = {}
    /\ patternOrder = << 0 >>
    /\ fromChip = <<>>
    /\ lastTransport = "none"
    /\ addCalls = NoCalls
    /\ storeIsPlaying = FALSE
    /\ svcCreated = FALSE
    /\ chip = "none"
    /\ ready = FALSE
    /\ audioNode = FALSE
    /\ currentNote = Undefined
    /\ heldKeys = {}
    /\ instruments = <<>>
    /\ tuningTable = <<>>
    /\ hlast = NoCall
    /\ port = <<>>
    /\ toHost = << [type |-> "ready"] >>
    /\ initialized = TRUE
    /\ instantiating = FALSE
    /\ wasmModule = WasmInstantiate({})
    /\ wasmInstances = {wasmModule}
    /\ \E inst \in TickInstruments : wInstruments = << inst >>
    /\ wTuningTable = <<>>
    /\ chipType = "ay"
    /\ wCurrentNote = Some(NewNote(TickNoteMsg, wInstruments))
    /\ instrumentRow = 0
    /\ tickCounter = 0
    /\ samplesPerTick = SamplesPerTick(SampleRate)
    /\ raised = FALSE
    /\ wlast = "none"
    /\ mem = [i \in Instances |->
                IF i = wasmModule
                THEN UpdateChipRegisters(engine, TRUE, chipType, ZeroRegs,
                                         wCurrentNote, 0, wTuningTable)
                ELSE ZeroRegs]
    /\ samples = 0
    /\ ticks = 0
    /\ visited = << 0 >>
    /\ fnCall = NoFn
    /\ fnResult = 0

NextTick ==
    \E b \in TickBlockSizes : Process(b)

SpecTick == InitTick /\ [][NextTick]_vars

(***************************************************************************)
(* SpecVolume: the volume combination of the loaded engine applied to      *)
(* every pair of in-range volumes.                                         *)
(***************************************************************************)
VolumeRange == 0 .. 15

ApplyCombinedVolume(p, i) ==
    /\ fnCall' = [fn |-> "combinedVolume", p |-> p, i |-> i]
    /\ fnResult' = CombinedVolume(engine, p, i)
    /\ UNCHANGED << sharedVars, editorVars, audioVars, chipVars, previewFrame, workletVars,
                    wasmInstances, mem, samples, ticks, visited, observed >>

\* the same pair of volumes combined by each of the two engines
CompareVolumes(p, i) ==
    /\ fnCall' = [fn |-> "compareVolumes", p |-> p, i |-> i]
    /\ fnResult' = [table |-> CombinedVolume("table", p, i),
                    linear |-> CombinedVolume("linear", p, i)]
    /\ UNCHANGED << sharedVars, editorVars, audioVars, chipVars, previewFrame, workletVars,
                    wasmInstances, mem, samples, ticks, visited, observed >>

InitVolume ==
    /\ engine \in Engines
    /\ observed = {}
    /\ Fresh

NextVolume ==
    \/ \E p \in VolumeRange, i \in VolumeRange : ApplyCombinedVolume(p, i)
    \/ \E p \in VolumeRange, i \in VolumeRange : CompareVolumes(p, i)

SpecVolume == InitVolume /\ [][NextVolume]_vars

(***************************************************************************)
(* SpecNote: the absolute note index playNote computes, for every pitch    *)
(* and octave.                                                             *)
(***************************************************************************)
\* NoteName values of the twelve pitch classes, C = 2 .. B = 13
PitchNoteNames == 2 .. 13
OctaveRange == 1 .. MaxOctave

ApplyBaseNote(noteName, octave) ==
    /\ fnCall' = [fn |-> "baseNote", noteName |-> noteName, octave |-> octave]
    /\ fnResult' = BaseNote(noteName, octave)
    /\ UNCHANGED << sharedVars, editorVars, audioVars, chipVars, previewFrame, workletVars,
                    wasmInstances, mem, samples, ticks, visited, observed >>

InitNote ==
    /\ engine \in Engines
    /\ observed = {}
    /\ Fresh

NextNote ==
    \E n \in PitchNoteNames, o \in OctaveRange : ApplyBaseNote(n, o)

SpecNote == InitNote /\ [][NextNote]_vars

(***************************************************************************)
(* SpecContext: the two preview lookups applied to every small pattern,    *)
(* row index and channel index.                                            *)
(***************************************************************************)
\* rows as a pattern holds them: nothing set, both fields 0, both set,
\* only the instrument, only the volume
PreviewRows ==
    { PatternRow(Undefined, Undefined), PatternRow(Some(0), Some(0)),
      PatternRow(Some(1), Some(15)), PatternRow(Some(2), Undefined),
      PatternRow(Undefined, Some(7)) }

RECURSIVE RowSeqs(_)
RowSeqs(n) ==
    IF n = 0 THEN { <<>> }
    ELSE RowSeqs(n - 1)
         \cup { Append(rs, r) : rs \in { x \in RowSeqs(n - 1) : Len(x) = n - 1 },
                                r \in PreviewRows }

\* the channel next to the one looked at
OtherChannels ==
    { [rows |-> <<>>],
      [rows |-> << PatternRow(Some(3), Some(3)), PatternRow(Some(4), Some(4)) >>] }

PreviewPatterns ==
    { [channels |-> << [rows |-> rs] >>] : rs \in RowSeqs(MaxPatternRows) }
    \cup { [channels |-> << [rows |-> rs], oc >>] :
             rs \in RowSeqs(MaxPatternRows), oc \in OtherChannels }

PreviewRowIndexes == -1 .. (MaxPatternRows + 1)
PreviewChannelIndexes == -1 .. 2

\* the pattern the editor holds, handed to every lookup
PatternHeld(pattern) == [fn |-> "pattern", pattern |-> pattern]

ApplyGetInstrumentForPreview(rowIndex, channelIndex) ==
    /\ fnCall' = [fn |-> "getInstrumentForPreview", pattern |-> fnCall.pattern,
                  rowIndex |-> rowIndex, channelIndex |-> channelIndex]
    /\ fnResult' = getInstrumentForPreview(fnCall.pattern, rowIndex, channelIndex)
    /\ UNCHANGED << sharedVars, editorVars, audioVars, chipVars, previewFrame, workletVars,
                    wasmInstances, mem, samples, ticks, visited, observed >>

ApplyGetVolumeForPreview(rowIndex, channelIndex) ==
    /\ fnCall' = [fn |-> "getVolumeForPreview", pattern |-> fnCall.pattern,
                  rowIndex |-> rowIndex, channelIndex |-> channelIndex]
    /\ fnResult' = getVolumeForPreview(fnCall.pattern, rowIndex, channelIndex)
    /\ UNCHANGED << sharedVars, editorVars, audioVars, chipVars, previewFrame, workletVars,
                    wasmInstances, mem, samples, ticks, visited, observed >>

InitContext ==
    /\ engine = "table"
    /\ observed = {}
    /\ FreshProgram
    /\ \E pat \in PreviewPatterns : fnCall = PatternHeld(pat)
    /\ fnResult = 0

NextContext ==
    \/ \E r \in PreviewRowIndexes, c \in PreviewChannelIndexes :
          ApplyGetInstrumentForPreview(r, c)
    \/ \E r \in PreviewRowIndexes, c \in PreviewChannelIndexes :
          ApplyGetVolumeForPreview(r, c)

SpecContext == InitContext /\ [][NextContext]_vars

(***************************************************************************)
(* Properties.                                                             *)
(***************************************************************************)
\* a step of the preview voice: a PreviewNoteService operation or a step of
\* the preview worklet
PreviewOperation ==
    \/ PreviewInitializePost
    \/ HostOnMessage
    \/ \E n \in SoloNoteNames, o \in Octaves, i \in HostInstrumentIndexes,
          c \in HostChannels, k \in SoloKeys, v \in HostVolumes :
          PlayNote(n, o, i, c, k, v)
    \/ \E k \in SoloKeys : StopNote(Some(k))
    \/ StopNote(Undefined)
    \/ \E t \in HostInstrumentTables : UpdateInstruments(t)
    \/ \E t \in HostTuningTables : UpdateTuningTable(t)
    \/ Destroy
    \/ WorkletReceive
    \/ \E ok \in BOOLEAN : WorkletInstantiatedStep(ok)
    \/ \E b \in BlockSizes : Process(b)

\* everything that belongs to full playback: the processor list, the playing
\* flag, the chip processor's node, port and worklet, and the registers of
\* the generator that worklet instantiated
ChipState ==
    << chipProcessors, isPlaying, procAudioNode, chipPort, chipWasm,
       chipPlaying, IF chipWasm # 0 THEN mem[chipWasm] ELSE ZeroRegs >>

\* C1: no preview operation sends a command to a chip processor or changes
\* any of its state, and a step of the preview voice writes to no generator
\* other than the one the preview worklet instantiated for itself.
C1_PreviewIsolation ==
    [][PreviewOperation =>
          /\ ChipState' = ChipState
          /\ \A i \in Instances \ {wasmModule'} : mem'[i] = mem[i]
          /\ (wasmModule' # 0 => wasmModule' # chipWasm')]_vars

\* the preview voice sounds on its own generator while the chip processor is
\* playing and the chip's generator is untouched
C1_Witness ==
    /\ chipWasm # 0
    /\ chipPlaying
    /\ wasmModule # 0
    /\ IsDef(wCurrentNote)
    /\ mem[wasmModule].volume[0] > 0
    /\ mem[chipWasm] = ZeroRegs

\* C2: on a ready service stopNote(key) posts stop_note and clears the
\* current note exactly when removing the key leaves no held key; otherwise
\* it posts nothing, keeps the note and only removes the key.
C2_KeySet ==
    [][\A k \in Keys :
          (StopNote(Some(k)) /\ audioNode /\ ready) =>
              IF heldKeys \ {k} = {}
              THEN /\ port' = Append(port, StopNoteMsg)
                   /\ currentNote' = Undefined
                   /\ heldKeys' = {}
              ELSE /\ port' = port
                   /\ currentNote' = currentNote
                   /\ heldKeys' = heldKeys \ {k}]_vars

\* key "A" started the note, "S" joined it, "A" was released: nothing was
\* posted and the note is still the current one, in the worklet too
C2_Witness ==
    /\ hlast = Call("stopNote", Some("A"), FALSE)
    /\ ready /\ audioNode
    /\ heldKeys = {"S"}
    /\ IsDef(currentNote)
    /\ Val(currentNote).key = "A"
    /\ port = <<>>
    /\ IsDef(wCurrentNote)

\* C3: playNote for the (noteName, octave, instrumentIndex, channelIndex) of
\* the current note posts nothing and keeps the current note; it only adds
\* the key, so the worklet's note, cursor, accumulator and registers stay.
C3_RetriggerNoOp ==
    [][\A n \in NoteNames, o \in Octaves, i \in HostInstrumentIndexes,
          c \in HostChannels, k \in Keys, v \in HostVolumes :
          ( /\ PlayNote(n, o, i, c, k, v)
            /\ IsDef(currentNote)
            /\ Val(currentNote).noteName = n
            /\ Val(currentNote).octave = o
            /\ Val(currentNote).instrumentIndex = i
            /\ Val(currentNote).channelIndex = c ) =>
              /\ port' = port
              /\ currentNote' = currentNote
              /\ heldKeys' = heldKeys \cup {k}
              /\ UNCHANGED << wCurrentNote, instrumentRow, tickCounter, mem >>]_vars

\* "S" was pressed for the note "A" is holding: nothing was posted and the
\* worklet's cursor, already past row 0, was not reset
C3_Witness ==
    /\ hlast = Call("playNote", Some("S"), FALSE)
    /\ ready /\ audioNode
    /\ heldKeys = {"A", "S"}
    /\ IsDef(currentNote)
    /\ Val(currentNote).key = "A"
    /\ port = <<>>
    /\ IsDef(wCurrentNote)
    /\ instrumentRow > 0

\* C4: while the note plays, the ticks fired equal the samples rendered
\* divided by the tick length, rounded down, whatever the block sizes.
C4_NoTickDropped ==
    ticks = samples \div samplesPerTick

\* the cursor the loop rule gives after t ticks from row 0
ExpectedLoopRow(t, n, loop) ==
    IF t < n THEN t ELSE loop + ((t - n) % (n - loop))

ObservedInstrument == Val(Val(wCurrentNote).instrument)

\* C5: with n rows and a loop index L, 0 <= L < n, the cursor visits
\* 0, 1, ..., n-1, L, ..., n-1, L, ...; three rows with loop 1 give
\* 0, 1, 2, 1, 2, 1 in five ticks.
C5_InstrumentLoop ==
    LET n == Len(ObservedInstrument.rows)
        loop == ObservedInstrument.loop
    IN  (IsDef(loop) /\ Val(loop) >= 0 /\ Val(loop) < n) =>
            /\ \A t \in 1 .. Len(visited) :
                   visited[t] = ExpectedLoopRow(t - 1, n, Val(loop))
            /\ (n = 3 /\ Val(loop) = 1 /\ Len(visited) = 6) =>
                   visited = << 0, 1, 2, 1, 2, 1 >>

C5_Witness ==
    /\ Len(ObservedInstrument.rows) = 3
    /\ ObservedInstrument.loop = Some(1)
    /\ ticks = 5
    /\ visited = << 0, 1, 2, 1, 2, 1 >>

\* C6: with no loop index the cursor advances to the last row and every
\* further tick leaves it there; two rows give 0, 1, 1, 1, 1 in four ticks.
C6_InstrumentHold ==
    LET n == Len(ObservedInstrument.rows)
        loop == ObservedInstrument.loop
    IN  (~IsDef(loop) /\ n >= 1) =>
            /\ \A t \in 1 .. Len(visited) : visited[t] = Min(t - 1, n - 1)
            /\ (n = 2 /\ Len(visited) = 5) => visited = << 0, 1, 1, 1, 1 >>

C6_Witness ==
    /\ Len(ObservedInstrument.rows) = 2
    /\ ~IsDef(ObservedInstrument.loop)
    /\ ticks = 4
    /\ visited = << 0, 1, 1, 1, 1 >>

\* C7: process and the advanceInstrument / updateChipRegisters it triggers
\* never raise, whatever instrument table and play_note payload arrived.
C7_RenderNeverThrows ==
    ~raised

\* C8: while no note is playing after stop_note, every channel of the
\* preview generator has volume 0 and is not switched to the envelope.
C8_StopSilences ==
    (initialized /\ ~IsDef(wCurrentNote)) =>
        \A c \in Channels :
            /\ mem[wasmModule].volume[c] = 0
            /\ mem[wasmModule].e_on[c] = 0

\* row 0 of the note's instrument, when it has one
FirstRow(cur) ==
    IF IsDef(cur.instrument) /\ Len(Val(cur.instrument).rows) > 0
    THEN Some(Val(cur.instrument).rows[1]) ELSE Undefined

\* C9: right after play_note is handled the cursor is 0 and the accumulator
\* is 0, and on the initialized worklet the new note is the current one and
\* its channel carries the tone and the volume derived from row 0 of its
\* instrument, all other channels being muted.
C9_PlayNoteStartsFresh ==
    (wlast = "play_note") =>
        /\ instrumentRow = 0
        /\ tickCounter = 0
        /\ initialized =>
              /\ IsDef(wCurrentNote)
              /\ LET cur == Val(wCurrentNote)
                     row0 == FirstRow(cur)
                     regs == mem[wasmModule]
                 IN  /\ regs.tone[cur.channelIndex] =
                           Frequency(wTuningTable,
                               BaseNote(cur.noteName, cur.octave)
                               + (IF IsDef(row0) THEN Val(row0).note ELSE 0))
                     /\ regs.volume[cur.channelIndex] =
                           CombinedVolume(engine, cur.baseVolume,
                               IF IsDef(row0) /\ IsDef(Val(row0).volume)
                               THEN Val(Val(row0).volume) ELSE DefaultVolume)
                     /\ \A c \in Channels \ {cur.channelIndex} :
                            regs.volume[c] = 0

\* a note on channel 1 replaced a note that had sounded on channel 0
C9_Witness ==
    /\ wlast = "play_note"
    /\ initialized
    /\ IsDef(wCurrentNote)
    /\ Val(wCurrentNote).channelIndex = 1
    /\ IsDef(Val(wCurrentNote).instrument)
    /\ mem[wasmModule].tone[0] # NoTone
    /\ mem[wasmModule].volume[1] > 0

\* C10: the combined volume of every pair of volumes in 0 .. 15 is a value
\* in 0 .. 15; it is 0 when either volume is 0 and 15 for (15, 15).
C10_VolumeBoundaries ==
    fnCall.fn = "combinedVolume" =>
        /\ fnResult \in 0 .. 15
        /\ (fnCall.p = 0 \/ fnCall.i = 0) => fnResult = 0
        /\ (fnCall.p = 15 /\ fnCall.i = 15) => fnResult = 15

C10_Witness ==
    /\ fnCall = [fn |-> "combinedVolume", p |-> 15, i |-> 15]
    /\ engine = "table"
    /\ fnResult = 15

\* the engine other than the loaded one
OtherEngine == CHOOSE e \in Engines : e # engine

\* C11 as claimed: for at least one pair of volumes in 0 .. 15 the loaded
\* engine and the other engine combine the pair to different values.
C11_EnginesDiffer ==
    \E p \in VolumeRange, i \in VolumeRange :
        CombinedVolume(engine, p, i) # CombinedVolume(OtherEngine, p, i)

\* C11 as amended: for every pair of volumes in 0 .. 15 the lookup table of
\* the table engine gives exactly round(p * i / 15), the value of the linear
\* engine; it is not the raw product p * i, which it undercuts whenever the
\* product exceeds 15.
C11_TableEqualsLinear ==
    fnCall.fn = "compareVolumes" =>
        /\ fnResult.table = fnResult.linear
        /\ fnCall.p * fnCall.i > 15 => fnResult.table < fnCall.p * fnCall.i

\* a pair whose quotient p * i / 15 is rounded upwards: 1 * 8 / 15 gives 1
C11_Witness ==
    /\ fnCall = [fn |-> "compareVolumes", p |-> 1, i |-> 8]
    /\ fnResult = [table |-> 1, linear |-> 1]

RegisterWritesAgree ==
    (~raised /\ wasmModule # 0 /\ IsDef(wCurrentNote)) =>
        UpdateChipRegisters(engine, TRUE, chipType, mem[wasmModule],
                            wCurrentNote, instrumentRow, wTuningTable)
        = ApplyWrites(mem[wasmModule],
              RegisterWrites(engine, TRUE, chipType, wCurrentNote,
                             instrumentRow, wTuningTable))

\* C13: the index playNote computes for a pitch N in 2 .. 13 and an octave
\* O of the range is not negative, gives back N as index mod 12 + 2 and O
\* as index div 12 + 1, and is the index of no other (N, O).
C13_NoteIndexRoundTrip ==
    fnCall.fn = "baseNote" =>
        /\ fnResult >= 0
        /\ (fnResult % 12) + 2 = fnCall.noteName
        /\ (fnResult \div 12) + 1 = fnCall.octave
        /\ \A n \in PitchNoteNames, o \in OctaveRange :
               BaseNote(n, o) = fnResult =>
                   n = fnCall.noteName /\ o = fnCall.octave

\* B (13) of octave 4: index 47, the last index of its octave
C13_Witness ==
    /\ fnCall = [fn |-> "baseNote", noteName |-> 13, octave |-> 4]
    /\ fnResult = 47

\* the recorded call is one of the two preview lookups
IsPreviewLookup ==
    fnCall.fn \in {"getInstrumentForPreview", "getVolumeForPreview"}
LookupChannelValid ==
    fnCall.channelIndex >= 0
    /\ fnCall.channelIndex < Len(fnCall.pattern.channels)
LookupRows == fnCall.pattern.channels[fnCall.channelIndex + 1].rows
LookupField(row) ==
    IF fnCall.fn = "getInstrumentForPreview" THEN row.instrument ELSE row.volume
LookupDefault ==
    IF fnCall.fn = "getInstrumentForPreview" THEN 0 ELSE 15
\* the rows at or before the row looked up that hold a value in the field
PresentRows ==
    { j \in 0 .. Min(fnCall.rowIndex, Len(LookupRows) - 1) :
        IsDef(LookupField(LookupRows[j + 1])) }
\* those of them whose value is above 0
SetRows ==
    { j \in PresentRows : Val(LookupField(LookupRows[j + 1])) > 0 }
Nearest(S) == CHOOSE j \in S : \A k \in S : k <= j

\* C14 as claimed: the lookup returns the value of the nearest row at or
\* before r in channel c that holds a value in the field, a volume 0 or an
\* instrument 0 included.
C14_NearestPresent ==
    (IsPreviewLookup /\ LookupChannelValid /\ PresentRows # {}) =>
        fnResult = Val(LookupField(LookupRows[Nearest(PresentRows) + 1]))

\* C14 as amended: the lookup returns the value of the nearest row at or
\* before r in channel c whose field holds a value above 0, whatever the
\* other channels hold; row 0 with instrument 1 and volume 15 followed by an
\* empty row 1 resolves row 1 to instrument 1 and volume 15.
C14_BackwardScan ==
    (IsPreviewLookup /\ LookupChannelValid /\ SetRows # {}) =>
        fnResult = Val(LookupField(LookupRows[Nearest(SetRows) + 1]))

\* the volume of an empty row 1 under a row 0 that sets 15, looked up in
\* channel 0 of a pattern whose channel 1 sets other values
C14_Witness ==
    /\ fnCall.fn = "getVolumeForPreview"
    /\ fnCall.rowIndex = 1
    /\ fnCall.channelIndex = 0
    /\ Len(fnCall.pattern.channels) = 2
    /\ fnCall.pattern.channels[1].rows =
           << PatternRow(Some(1), Some(15)), PatternRow(Undefined, Undefined) >>
    /\ fnCall.pattern.channels[2].rows # <<>>
    /\ fnResult = 15

\* C15 as claimed: the default (instrument 0, volume 15) is returned when
\* the channel index is outside the pattern, when the row index is outside
\* the channel's rows, and when no row at or before it holds the field.
C15_DefaultsOutsideRows ==
    ( /\ IsPreviewLookup
      /\ \/ ~LookupChannelValid
         \/ fnCall.rowIndex < 0
         \/ fnCall.rowIndex >= Len(LookupRows)
         \/ PresentRows = {} ) => fnResult = LookupDefault

\* C15 as amended: the default is returned when the channel index is
\* outside the pattern, when the row index is negative, and when no row at
\* or before the row index holds a value above 0 in the field; a row index
\* past the last row inherits from the rows of the channel like any other.
C15_Defaults ==
    IsPreviewLookup =>
        /\ (~LookupChannelValid \/ fnCall.rowIndex < 0 \/ SetRows = {}) =>
               fnResult = LookupDefault
        /\ (LookupChannelValid /\ fnCall.rowIndex >= Len(LookupRows)) =>
               fnResult = IF SetRows = {} THEN LookupDefault
                          ELSE Val(LookupField(LookupRows[Nearest(SetRows) + 1]))

\* the volume looked up in a channel the pattern does not have, although
\* channel 0 sets one
C15_Witness ==
    /\ fnCall.fn = "getVolumeForPreview"
    /\ fnCall.channelIndex = 2
    /\ fnCall.rowIndex = 0
    /\ fnCall.pattern.channels[1].rows = << PatternRow(Undefined, Some(7)) >>
    /\ fnResult = 15

\* the worklet has handled 'init' and has nothing left to do for it: no
\* instantiation is pending and no reply is on its way to the host
WorkletInitFinished ==
    chipType # "none" /\ ~instantiating /\ toHost = <<>>

\* C16: once the worklet is done with 'init', the addChipProcessor call that
\* awaits PreviewNoteService.initialize has settled, and when the chip type
\* is not supported or the module failed to instantiate it settled with an
\* error handed to the caller.
C16_UnsupportedChipReported ==
    (addPc = "awaitReady" \/ addPc = "done" \/ addPc = "failed") =>
        (WorkletInitFinished =>
            /\ addPc # "awaitReady"
            /\ ~initialized => audioError # "none")

\* what a call on an unusable service must leave alone
HostUntouched ==
    /\ port' = port
    /\ heldKeys' = heldKeys
    /\ currentNote' = currentNote
    /\ audioError' = audioError

\* C17: playNote and stopNote on a service that has no node or is not ready
\* (before initialize completed, after destroy) post nothing, keep the held
\* keys and the current note and raise nothing; play_note handled by a
\* worklet that is not initialized keeps its note, cursor and registers.
C17_UninitializedNoOp ==
    [][ /\ \A n \in NoteNames, o \in Octaves, i \in HostInstrumentIndexes,
             c \in HostChannels, k \in Keys, v \in HostVolumes :
             (PlayNote(n, o, i, c, k, v) /\ ~(audioNode /\ ready))
                 => HostUntouched
        /\ \A k \in Keys :
             (StopNote(Some(k)) /\ ~(audioNode /\ ready)) => HostUntouched
        /\ (StopNote(Undefined) /\ ~(audioNode /\ ready)) => HostUntouched
        /\ \A n \in SoloNoteNames, o \in Octaves, i \in HostInstrumentIndexes,
             c \in HostChannels, v \in HostVolumes :
             (Deliver(PlayNoteMsg(n, o, i, c, v)) /\ ~initialized) =>
                 /\ UNCHANGED << wCurrentNote, instrumentRow, tickCounter, mem >>
                 /\ raised' = raised ]_vars

\* playNote was called on the service before its worklet answered, and the
\* worklet handled a play_note before it was initialized
C17_Witness ==
    /\ svcCreated
    /\ ~ready
    /\ hlast = Call("playNote", Some("A"), FALSE)
    /\ heldKeys = {}
    /\ wlast = "play_note"
    /\ ~initialized
    /\ ~IsDef(wCurrentNote)

\* stopNote was called after destroy, the worklet still holding the note
C17_AfterDestroy ==
    /\ svcCreated
    /\ initialized
    /\ ~audioNode
    /\ hlast = Call("stopNote", Some("A"), FALSE)
    /\ IsDef(wCurrentNote)

\* the commands a step appends to the chip processor's port
Posted ==
    IF /\ Len(chipPort') >= Len(chipPort)
       /\ SubSeq(chipPort', 1, Len(chipPort)) = chipPort
    THEN SubSeq(chipPort', Len(chipPort) + 1, Len(chipPort'))
    ELSE <<>>

\* play, playFromRow while playing and stop while stopped post nothing and
\* keep the flag
C18_NoOpCalls ==
    [][ /\ (Play /\ isPlaying) => UNCHANGED << isPlaying, chipPort >>
        /\ \A row \in StartRows, poi \in StartOrderIndexes,
              speed \in StartSpeeds :
              (PlayFromRow(row, poi, speed) /\ isPlaying)
                  => UNCHANGED << isPlaying, chipPort >>
        /\ (Stop /\ ~isPlaying) => UNCHANGED << isPlaying, chipPort >> ]_vars

\* C18: play() and playFromRow() while playing and stop() while stopped send
\* nothing and keep the state, and the start and stop commands posted to the
\* chip processor alternate, the first of them being a start.
C18_TwoStateMachine ==
    [][ /\ (Play /\ isPlaying) => UNCHANGED << isPlaying, chipPort >>
        /\ \A row \in StartRows, poi \in StartOrderIndexes,
              speed \in StartSpeeds :
              (PlayFromRow(row, poi, speed) /\ isPlaying)
                  => UNCHANGED << isPlaying, chipPort >>
        /\ (Stop /\ ~isPlaying) => UNCHANGED << isPlaying, chipPort >>
        /\ \A k \in DOMAIN Posted :
              /\ IsStart(Posted[k]) => lastTransport # "start"
              /\ Posted[k].type = "stop" => lastTransport = "start" ]_vars

RequestHandled ==
    /\ HandleWorkletMessage
    /\ Head(fromChip).type = "request_pattern"

\* C20: a request_pattern for a position inside the order table as it is when
\* the request is handled is answered by exactly one set_pattern_data; its
\* pattern has the id the order table holds at that position and is the
\* pattern of the list with that id, or an empty pattern with that id when
\* the list has none.  A request for a position outside the order table is
\* answered by nothing and raises nothing.
C20_PatternRequest ==
    [][ RequestHandled =>
          LET idx == Head(fromChip).patternOrderIndex IN
          IF idx >= 0 /\ idx < Len(patternOrder)
          THEN /\ Len(Posted) = 1
               /\ Posted[1].type = "set_pattern_data"
               /\ Posted[1].pattern.id = patternOrder[idx + 1]
               /\ \/ Posted[1].pattern \in patterns
                  \/ /\ \A q \in patterns : q.id # patternOrder[idx + 1]
                     /\ Posted[1].pattern.content = 0
               /\ audioError' = audioError
          ELSE /\ Posted = <<>>
               /\ audioError' = audioError ]_vars

\* the order table was extended during playback and the request for its new
\* position was answered with an empty pattern of the id found there, the
\* list holding no pattern with that id
C20_Witness ==
    /\ isPlaying
    /\ patternOrder = << 0, 1 >>
    /\ patterns = { [id |-> 0, content |-> 2] }
    /\ fromChip = <<>>
    /\ chipPort = << SetPatternDataCommand([id |-> 1, content |-> 0]) >>

\* C21: whatever base volume play_note carries and whatever volume and noise
\* value the instrument rows hold, every volume level in the preview
\* generator is within 0 .. 15 and its noise period within 0 .. 31.
C21_RegisterClamping ==
    wasmModule # 0 =>
        /\ \A c \in Channels : mem[wasmModule].volume[c] \in 0 .. 15
        /\ mem[wasmModule].noise \in 0 .. 31

\* the table engine alone keeps the registers in their domains
C21_TableEngineClamps ==
    engine = "table" => C21_RegisterClamping

\* play_note for A of octave 4 was just handled, the row under the cursor
\* has note offset 0 and the tuning table has no entry for the note
A4WithoutTuning ==
    /\ wlast = "play_note"
    /\ initialized
    /\ chipType = "ay"
    /\ IsDef(wCurrentNote)
    /\ Val(wCurrentNote).noteName = 11
    /\ Val(wCurrentNote).octave = 4
    /\ NoteOffsetOf(Val(wCurrentNote), instrumentRow) = 0
    /\ Val(wCurrentNote).baseNote + 1 \notin DOMAIN wTuningTable

\* C22: A of octave 4 with note offset 0 is given the reference index 57, so
\* that without a tuning entry its tone is set to exactly 440 Hz.
C22_A4FallsBackTo440 ==
    A4WithoutTuning =>
        /\ Val(wCurrentNote).baseNote = ReferenceNote
        /\ Is440Hz(mem[wasmModule].tone[Val(wCurrentNote).channelIndex])

\* C23: handling update_instruments or update_tuning_table writes no register
\* and keeps the current note with its instrument snapshot, the cursor and
\* the accumulator; a render quantum in which no tick fires writes no
\* register either, so the new table is first used by a tick or a play_note.
C23_TableUpdatesDeferred ==
    [][ /\ \A t \in WInstrumentTables :
             Deliver(UpdateInstrumentsMsg(t)) =>
                 UNCHANGED << mem, wCurrentNote, instrumentRow, tickCounter >>
        /\ \A t \in WTuningTables :
             Deliver(UpdateTuningTableMsg(t)) =>
                 UNCHANGED << mem, wCurrentNote, instrumentRow, tickCounter >>
        /\ \A b \in BlockSizes :
             (Process(b) /\ ~TickFires(b)) =>
                 UNCHANGED << mem, wCurrentNote, instrumentRow >> ]_vars

\* a tuning table with an entry for the sounding note has just arrived and
\* the tone register still holds the fallback frequency
C23_Witness ==
    /\ wlast = "update_tuning_table"
    /\ initialized
    /\ chipType = "ay"
    /\ IsDef(wCurrentNote)
    /\ Val(wCurrentNote).baseNote + 1 \in DOMAIN wTuningTable
    /\ mem[wasmModule].tone[Val(wCurrentNote).channelIndex].src = "equal"

\* the instrument table was replaced while a note sounds: the note keeps
\* the instrument it was started with
C23_SnapshotKept ==
    /\ wlast = "update_instruments"
    /\ IsDef(wCurrentNote)
    /\ IsDef(Val(wCurrentNote).instrument)
    /\ Val(wCurrentNote).instrument #
           InstrumentAt(wInstruments, Val(wCurrentNote).instrumentIndex)

\* all three channels of the preview generator are silent
Silenced ==
    wasmModule # 0 => \A c \in Channels : mem[wasmModule].volume[c] = 0

\* C24: a handled stop_note leaves no note, a zero tick accumulator and
\* three silent channels in one step (the handler and process() each run to
\* completion, so no state lies between a tick's register writes); from then
\* on process() fires no tick, writes no register and keeps the accumulator
\* at 0 for as long as no note is started.
C24_StopNoteAtomic ==
    [][ /\ Deliver(StopNoteMsg) =>
              (~IsDef(wCurrentNote') /\ tickCounter' = 0 /\ Silenced')
        /\ \A b \in BlockSizes :
              (Process(b) /\ ~IsDef(wCurrentNote)) =>
                  /\ ~TickFires(b)
                  /\ tickCounter = 0
                  /\ UNCHANGED << mem, tickCounter, instrumentRow,
                                  wCurrentNote >> ]_vars

\* a render quantum after the stop of a note whose accumulator had advanced
C24_Witness ==
    /\ wlast = "process"
    /\ initialized
    /\ wasmModule # 0
    /\ ~IsDef(wCurrentNote)
    /\ tickCounter = 0
    /\ \E c \in Channels : mem[wasmModule].tone[c] # NoTone

\* C25: every tick that fires while a note is playing ends with the
\* registers of the generator equal to a full updateChipRegisters
\* application for the note, the cursor after the tick and the tuning table
\* in force, also for a held cursor and for a note without instrument.
C25_TickRederives ==
    [][ \A b \in BlockSizes :
           (Process(b) /\ TickFires(b) /\ ~raised') =>
               mem'[wasmModule] =
                   UpdateChipRegisters(engine, TRUE, chipType, mem[wasmModule],
                                       wCurrentNote, instrumentRow',
                                       wTuningTable) ]_vars

\* the same for the notes that carry an instrument
C25_TickRederivesWithInstrument ==
    [][ \A b \in BlockSizes :
           (/\ Process(b) /\ TickFires(b) /\ ~raised'
            /\ IsDef(Val(wCurrentNote).instrument)) =>
               mem'[wasmModule] =
                   UpdateChipRegisters(engine, TRUE, chipType, mem[wasmModule],
                                       wCurrentNote, instrumentRow',
                                       wTuningTable) ]_vars

\* the channels of the preview generator with a non-zero volume
Sounding ==
    IF wasmModule = 0 THEN {}
    ELSE {c \in Channels : mem[wasmModule].volume[c] # 0}

\* C26: at most one channel of the preview generator has a non-zero volume,
\* and while a note is playing no channel but the note's has one, whatever
\* channels the notes before it were played on.
C26_OneNoteAtATime ==
    /\ Cardinality(Sounding) <= 1
    /\ IsDef(wCurrentNote) => Sounding \subseteq {Val(wCurrentNote).channelIndex}

\* a note sounds on channel 1 after an earlier note had set the tone of
\* channel 0
C26_Witness ==
    /\ wlast = "play_note"
    /\ IsDef(wCurrentNote)
    /\ Val(wCurrentNote).channelIndex = 1
    /\ Sounding = {1}
    /\ mem[wasmModule].tone[0] # NoTone

\* play_note for another channel arrives while a note sounds: the channel of
\* the replaced note is silent afterwards
C26_ChannelSwitch ==
    [][ \A n \in WNoteNames, o \in Octaves, i \in WInstrumentIndexes,
           c \in WChannels, v \in WVolumes :
           (/\ Deliver(PlayNoteMsg(n, o, i, c, v))
            /\ IsDef(wCurrentNote)
            /\ Val(wCurrentNote).channelIndex # c
            /\ Val(wCurrentNote).channelIndex \in Sounding) =>
               Sounding' \subseteq {c} ]_vars

\* isPlaying()
IsPlaying == IsDef(currentNote)

\* C27: in every state of the service reached by playNote, stopNote with or
\* without a key, updateInstruments and destroy, heldKeys is non-empty
\* exactly when a current note is recorded.
C27_HeldKeysIffNote ==
    (heldKeys # {}) <=> IsPlaying

\* one of two held keys was released: the note goes on and a key stays held
C27_Witness ==
    /\ hlast = Call("stopNote", Some("A"), FALSE)
    /\ ready
    /\ heldKeys = {"S"}
    /\ IsPlaying

\* the service was destroyed while a key was held
C27_AfterDestroy ==
    /\ hlast.op = "destroy"
    /\ heldKeys = {}
    /\ ~IsPlaying

\* the four fields the service compares in playNote
NoteIdentity(n) ==
    << n.noteName, n.octave, n.instrumentIndex, n.channelIndex >>

\* the service is initialized and every message it posted was handled
Quiescent == ready /\ audioNode /\ port = <<>>

\* C28: for an initialized preview voice with every posted message handled,
\* the worklet has a current note exactly when the service is playing, and
\* then both record the same note name, octave, instrument index and
\* channel index.
C28_HostWorkletAgree ==
    Quiescent =>
        /\ IsDef(wCurrentNote) <=> IsPlaying
        /\ IsPlaying =>
              NoteIdentity(Val(wCurrentNote)) = NoteIdentity(Val(currentNote))

\* a second key started another note while the first key was held, and the
\* worklet has taken the new note over
C28_Witness ==
    /\ Quiescent
    /\ hlast = Call("playNote", Some("S"), TRUE)
    /\ heldKeys = {"A", "S"}
    /\ IsDef(wCurrentNote)
    /\ NoteIdentity(Val(wCurrentNote)) = NoteIdentity(Val(currentNote))

\* both sides are back to no note after a stop was handled
C28_StoppedOnBothSides ==
    /\ Quiescent
    /\ hlast.op = "stopNote"
    /\ hlast.posted
    /\ ~IsPlaying
    /\ ~IsDef(wCurrentNote)

\* C29: on an initialized service every playNote adds its key to the held
\* keys, every stopNote(key) removes exactly its key, no other call but a
\* keyless stopNote and destroy changes the set, and the stopNote that
\* removes the last held key clears the current note and posts stop_note as
\* the newest message; so once every key given to playNote was given to
\* stopNote, with no playNote after, no key is held, no note is recorded and
\* stop_note follows the last play_note.
C29_AllKeysReleasedSilences ==
    [][ (ready /\ audioNode) =>
          /\ \A n \in NoteNames, o \in Octaves, i \in HostInstrumentIndexes,
                c \in HostChannels, k \in Keys, v \in HostVolumes :
                PlayNote(n, o, i, c, k, v) => heldKeys' = heldKeys \cup {k}
          /\ \A k \in Keys :
                StopNote(Some(k)) =>
                   /\ heldKeys' = heldKeys \ {k}
                   /\ heldKeys' = {} =>
                         /\ currentNote' = Undefined
                         /\ port' = Append(port, StopNoteMsg)
          /\ \A t \in HostInstrumentTables :
                UpdateInstruments(t) => UNCHANGED << heldKeys, currentNote >>
          /\ (WorkletReceive \/ HostOnMessage \/ \E b \in BlockSizes : Process(b))
                => UNCHANGED << heldKeys, currentNote >> ]_vars

\* the second of two held keys was released and stop_note is the newest
\* message
C29_Witness ==
    /\ ready
    /\ audioNode
    /\ hlast = Call("stopNote", Some("S"), TRUE)
    /\ heldKeys = {}
    /\ ~IsPlaying
    /\ port # <<>>
    /\ port[Len(port)] = StopNoteMsg

\* the cursor names a row of the playing note's instrument
CursorInRange ==
    /\ 0 <= instrumentRow
    /\ instrumentRow < Len(Val(Val(wCurrentNote).instrument).rows)

\* a note with an instrument is playing
PlayingWithInstrument ==
    IsDef(wCurrentNote) /\ IsDef(Val(wCurrentNote).instrument)

\* C30: while a note with an instrument is playing, after play_note and
\* after every tick, the cursor is a valid row index of the instrument,
\* whatever its row count and loop value.
C30_CursorInRange ==
    PlayingWithInstrument => CursorInRange

\* the same for instruments with at least one row
C30_CursorInRangeNonEmpty ==
    (PlayingWithInstrument
       /\ Len(Val(Val(wCurrentNote).instrument).rows) > 0) => CursorInRange

\* the same for instruments with at least one row whose loop value, when
\* it is not negative, is below the row count
C30_CursorInRangeValidLoop ==
    (/\ PlayingWithInstrument
     /\ LET inst == Val(Val(wCurrentNote).instrument)
        IN  /\ Len(inst.rows) > 0
            /\ (IsDef(inst.loop) => Val(inst.loop) < Len(inst.rows)))
       => CursorInRange

(***************************************************************************)
(* SpecAdd: several addChipProcessor calls, each followed from one await   *)
(* to the next; a list entry is the call that pushed it.  The preview      *)
(* worklet behind each service is left out: a call only needs to know      *)
(* whether previewService.initialize settled.                              *)
(***************************************************************************)
addFrame == << engine, storeIsPlaying, editorVars, addPc, addChip, isPlaying,
               audioError, chipVars, hostVars, port, toHost, workletVars,
               wasmInstances, mem, observeVars >>

\* addChipProcessor up to its first await: the processor is pushed
AddChipProcessorCall(id) ==
    /\ addCalls[id] = "none"
    /\ chipProcessors' = Append(chipProcessors, id)
    /\ addCalls' = [addCalls EXCEPT ![id] = "loading"]
    /\ UNCHANGED << previewServices, addFrame >>

\* fetch, arrayBuffer or addModule rejects: the call ends, its processor
\* stays in the list
AddChipProcessorRejected(id) ==
    /\ addCalls[id] \in {"loading", "previewInit"}
    /\ addCalls' = [addCalls EXCEPT ![id] = "failed"]
    /\ UNCHANGED << chipProcessors, previewServices, addFrame >>

\* the awaits before createAudioNode have resolved: the processor is
\* initialized and previewService.initialize is awaited
AddChipProcessorInitialized(id) ==
    /\ addCalls[id] = "loading"
    /\ addCalls' = [addCalls EXCEPT ![id] =
                       IF chipProcessors = <<>> THEN "failed" ELSE "previewInit"]
    /\ UNCHANGED << chipProcessors, previewServices, addFrame >>

\* the service is pushed in the order the calls finish, not the order they
\* started
AddChipProcessorPushed(id) ==
    /\ addCalls[id] = "previewInit"
    /\ previewServices' = Append(previewServices, id)
    /\ addCalls' = [addCalls EXCEPT ![id] = "done"]
    /\ UNCHANGED << chipProcessors, addFrame >>

InitAdd ==
    /\ engine = "table"
    /\ observed = {}
    /\ Fresh

NextAdd ==
    \/ \E id \in CallIds : AddChipProcessorCall(id)
    \/ \E id \in CallIds : AddChipProcessorRejected(id)
    \/ \E id \in CallIds : AddChipProcessorInitialized(id)
    \/ \E id \in CallIds : AddChipProcessorPushed(id)

SpecAdd == InitAdd /\ [][NextAdd]_vars

\* getPreviewService(chipIndex): previewServices[chipIndex] || null
GetPreviewService(chipIndex) ==
    IF chipIndex + 1 \in DOMAIN previewServices
    THEN Some(previewServices[chipIndex + 1]) ELSE Undefined

\* the preview service of the chip at a position, when that chip has one
ServiceOfChipAt(chipIndex) ==
    IF addCalls[chipProcessors[chipIndex + 1]] = "done"
    THEN Some(chipProcessors[chipIndex + 1]) ELSE Undefined

\* C31: after any interleaving of addChipProcessor calls, overlapping and
\* failing ones included, getPreviewService(i) is the preview service made
\* for the chip at position i of chipProcessors, and null only when that
\* chip has none.
C31_PreviewServicesAligned ==
    \A i \in 0 .. (Len(chipProcessors) - 1) :
        GetPreviewService(i) = ServiceOfChipAt(i)

\* every service in the list was made for a chip in the list, once
C31_ServiceOfListedChip ==
    /\ \A i \in DOMAIN previewServices :
          \E j \in DOMAIN chipProcessors : chipProcessors[j] = previewServices[i]
    /\ \A i, j \in DOMAIN previewServices :
          previewServices[i] = previewServices[j] => i = j

\* a call of play, playFromRow or stop on the service
TransportCall ==
    \/ Play
    \/ \E row \in StartRows, poi \in StartOrderIndexes, speed \in StartSpeeds :
          PlayFromRow(row, poi, speed)
    \/ Stop

\* C32: whatever addChipProcessor call is in progress or has failed, play,
\* playFromRow and stop send nothing to a chip processor whose initialize
\* has not completed, so none of them raises 'Audio node not available'.
C32_NoCommandBeforeInitialize ==
    [][ TransportCall => audioError' # "Audio node not available" ]_vars

\* with the processor initialized, none of the three calls raises
C32_InitializedNeverRaises ==
    [][ (TransportCall /\ procAudioNode) => UNCHANGED audioError ]_vars

\* the chip processor was sent a play or playFromRow command and no stop
\* since
ProcessorStarted == lastTransport = "start"

\* C33: whenever the service's playing flag is true every chip processor in
\* the list has been sent play or playFromRow since its last stop, and
\* whenever it is false none has, also for a processor added while the flag
\* is true.
C33_PlayingFlagReflectsChips ==
    chipProcessors # <<>> => (isPlaying <=> ProcessorStarted)

\* a call of play, playFromRow or stop that changes the flag and finds the
\* processor initialized leaves flag and processor in agreement
C33_AgreeAfterTransport ==
    [][ (TransportCall /\ chipProcessors # <<>> /\ procAudioNode) =>
            (isPlaying' <=> ProcessorStarted') ]_vars

\* both lists of the service are empty
ListsEmpty == chipProcessors = <<>> /\ previewServices = <<>>

\* what clearChipProcessors is to leave behind, given the state it starts in
CleanAfterTeardown ==
    /\ ~isPlaying'
    /\ ListsEmpty'
    /\ (isPlaying /\ chipProcessors # <<>>) =>
           chipPort' = Append(chipPort, ChipCommand("stop"))
    /\ previewServices # <<>> => (~ready' /\ ~audioNode' /\ heldKeys' = {})

\* C34: clearChipProcessors leaves playing false, has sent stop to the chip
\* processor that was playing, has destroyed every preview service and has
\* emptied both lists; the lists then stay empty until addChipProcessor is
\* called again, so a call still in flight at teardown adds nothing.
C34_TeardownLeavesCleanState ==
    [][ /\ ClearChipProcessors => CleanAfterTeardown
        /\ (ListsEmpty /\ ~ \E c \in ChipTypes : AddChipProcessor(c)) =>
               ListsEmpty' ]_vars

\* the same for a teardown that finds no uninitialized processor and no
\* addChipProcessor call in flight
C34_CleanWhenSettled ==
    [][ /\ (ClearChipProcessors /\ (chipProcessors # <<>> => procAudioNode)) =>
               CleanAfterTeardown
        /\ (/\ ListsEmpty
            /\ addPc \in {"idle", "done", "failed"}
            /\ ~ \E c \in ChipTypes : AddChipProcessor(c)) =>
               ListsEmpty' ]_vars

\* the second half of C34 alone: empty lists stay empty until the next
\* addChipProcessor call
C34_EmptyUntilNextCall ==
    [][ (ListsEmpty /\ ~ \E c \in ChipTypes : AddChipProcessor(c)) =>
            ListsEmpty' ]_vars

(***************************************************************************)
(* SpecEditor: the playback shortcuts of the pattern editor on top of the  *)
(* service, while the editor's chip processor is added and loaded.  The    *)
(* editor always has a current pattern (findOrCreatePattern), and the      *)
(* optional initAllChips callback is not passed.                           *)
(***************************************************************************)
shortcutFrame == << engine, addCalls, addPc, addChip, chipProcessors,
                    previewServices, procAudioNode, chipWasm, chipPlaying,
                    muteStore, patterns, patternOrder, fromChip, previewFrame,
                    workletVars, wasmInstances, mem, observeVars >>

\* !chipProcessor || !chipProcessor.isAudioNodeAvailable()
ProcessorUnavailable == chipProcessors = <<>> \/ ~procAudioNode

\* togglePlayback: play() unless the processor is unavailable or the
\* service is playing; stop() is called only from the catch block
TogglePlayback ==
    IF ProcessorUnavailable \/ isPlaying
    THEN UNCHANGED << isPlaying, audioError, chipPort, lastTransport >>
    ELSE /\ isPlaying' = TRUE
         /\ SendToChips(StartCommands(chipProcessors, muteStore,
                                      ChipCommand("play")))

\* pausePlayback: stop()
PausePlayback ==
    IF ~isPlaying
    THEN UNCHANGED << isPlaying, audioError, chipPort, lastTransport >>
    ELSE /\ isPlaying' = FALSE
         /\ SendToChips(<< ChipCommand("stop") >>)

\* the toggle-playback shortcut
OnTogglePlayback ==
    /\ Len(chipPort) < MaxChipQueue
    /\ storeIsPlaying' = TRUE
    /\ TogglePlayback
    /\ UNCHANGED shortcutFrame

\* the pause-playback shortcut
OnPausePlayback ==
    /\ Len(chipPort) < MaxChipQueue
    /\ storeIsPlaying' = FALSE
    /\ PausePlayback
    /\ UNCHANGED shortcutFrame

InitEditor ==
    /\ engine = "table"
    /\ observed = {"transport"}
    /\ Fresh

NextEditor ==
    \/ AddChipProcessor("ay")
    \/ AddChipProcessorLoaded
    \/ OnTogglePlayback
    \/ OnPausePlayback
    \/ \E ci \in ChipIndexes, ch \in MuteChannels : ToggleChannel(ci, ch)
    \/ ChipWorkletHandle

SpecEditor == InitEditor /\ [][NextEditor]_vars

\* C35: after the toggle-playback and the pause-playback shortcut, also with
\* the processor's audio node unavailable, playbackStore.isPlaying equals
\* the service's playing flag.
C35_StoreMatchesEngine ==
    [][ (OnTogglePlayback \/ OnPausePlayback) =>
            (storeIsPlaying' = isPlaying') ]_vars

\* the same for the pause shortcut, and for the toggle shortcut when the
\* processor has its audio node
C35_MatchesWhenAvailable ==
    [][ (OnPausePlayback \/ (OnTogglePlayback /\ ~ProcessorUnavailable)) =>
            (storeIsPlaying' = isPlaying') ]_vars

(***************************************************************************)
(* SpecColumn: getChannelIndexFromColumn applied to every column of        *)
(* patterns with up to MaxChannels channels.                               *)
(***************************************************************************)
\* Math.ceil(a / b) for a >= 0 and b >= 1
CeilDiv(a, b) == (a + b - 1) \div b

\* Math.ceil(selectedColumn / numChannels) || 1
ColumnsPerChannel(selectedColumn, numChannels) ==
    IF CeilDiv(selectedColumn, numChannels) = 0
    THEN 1 ELSE CeilDiv(selectedColumn, numChannels)

\* PatternInstrumentContext.getChannelIndexFromColumn, by the channel count
\* of the pattern
GetChannelIndexFromColumn(selectedColumn, numChannels) ==
    IF numChannels = 0 THEN 0
    ELSE Min(selectedColumn \div ColumnsPerChannel(selectedColumn, numChannels),
             numChannels - 1)

ApplyGetChannelIndexFromColumn(selectedColumn, numChannels) ==
    /\ fnCall' = [fn |-> "getChannelIndexFromColumn",
                  selectedColumn |-> selectedColumn,
                  numChannels |-> numChannels]
    /\ fnResult' = GetChannelIndexFromColumn(selectedColumn, numChannels)
    /\ UNCHANGED << sharedVars, editorVars, audioVars, chipVars, previewFrame,
                    workletVars, wasmInstances, mem, samples, ticks, visited,
                    observed >>

InitColumn ==
    /\ engine = "table"
    /\ observed = {}
    /\ Fresh

NextColumn ==
    \E col \in 0 .. MaxColumn, n \in 0 .. MaxChannels :
        ApplyGetChannelIndexFromColumn(col, n)

SpecColumn == InitColumn /\ [][NextColumn]_vars

\* the result is a channel of the pattern, and 0 for a pattern without
\* channels
ChannelInRange ==
    IF fnCall.numChannels = 0 THEN fnResult = 0
    ELSE fnResult \in 0 .. (fnCall.numChannels - 1)

\* the column before the selected one does not map to a later channel
NotBelowPreviousColumn ==
    fnCall.selectedColumn > 0 =>
        fnResult >= GetChannelIndexFromColumn(fnCall.selectedColumn - 1,
                                              fnCall.numChannels)

\* C36: for a pattern with n >= 1 channels and a selected column >= 0 the
\* result of getChannelIndexFromColumn is an integer in 0..n-1, it is 0 for
\* a pattern with no channels, and it does not decrease as the selected
\* column grows.
C36_ValidChannelIndex ==
    fnCall.fn = "getChannelIndexFromColumn" =>
        (ChannelInRange /\ NotBelowPreviousColumn)

\* the range half of C36
C36_ChannelInRange ==
    fnCall.fn = "getChannelIndexFromColumn" => ChannelInRange

\* the result does not decrease for patterns of up to three channels
C36_MonotoneUpToThreeChannels ==
    (fnCall.fn = "getChannelIndexFromColumn" /\ fnCall.numChannels <= 3) =>
        NotBelowPreviousColumn

====
